---- MODULE Spec2Model ----
(***************************************************************************)
(* BTC price oracle relay (server/nostr-relay.ts): the relay state machine *)
(* (frame dispatch, admission, event store, subscriptions, broadcast), the *)
(* price orchestration (cache, upstream fan-out, quorum, aggregation) and  *)
(* the token-bucket rate limiter.                                          *)
(*                                                                         *)
(* Conventions.  Times are integers in milliseconds.  Token counts are     *)
(* kept in thousandths of a token so that elapsed_ms * rps / 1000 stays an *)
(* integer.  An aggregated value is the exact fraction num/den.  SHA-256   *)
(* is collision free: an event id is the canonical serialization as text.  *)
(* A Schnorr signature names the key that made it and the id it covers.    *)
(***************************************************************************)
EXTENDS Integers, Sequences, FiniteSets, TLC

VARIABLES
  env,        \* configuration read from process.env when the module loads
  now,        \* Date.now(), milliseconds
  events,     \* the event store
  priceCache, \* the single cache entry
  ipLimiter,  \* buckets of the IP limiter
  pubLimiter, \* buckets of the pubkey limiter
  clients,    \* wss.clients: per connection, open flag, subs and frames sent
  handlers,   \* the invocations of the async "message" callback
  microtasks, \* invocations whose await has resolved, in the order they resume
  fetchCalls, \* per source, how many times fetchPrice was called
  trace,      \* history: every event passed to storeEvent, in order
  allowLog,   \* history: the key, time and result of each RateLimiter.allow call
  probe,      \* a direct call of one function: its arguments and what it returned
  hook        \* the client hook useWebSocket: its refs, sockets and timers

vars == <<env, now, events, priceCache, ipLimiter, pubLimiter, clients,
          handlers, microtasks, fetchCalls, trace, allowLog, probe, hook>>

-----------------------------------------------------------------------------
(* Bounds of the model *)

\* Date.now() when the relay starts
T0 == 5000
\* frames handled in a run of the price orchestration
MaxFrames == 2
\* RateLimiter.allow calls in a run of the limiter alone
MaxCalls == 5
\* largest burst of the limiter alone
MaxBurst == 2
\* how far the clock of the limiter alone runs, milliseconds
Horizon == 1400
\* frames handled in a run of the admission
MaxEvents == 16
\* samples handed to aggregate when it is called alone
MaxSamples == 6
\* frames handled in a run of the subscriptions
MaxBackfill == 4
\* frames handled in a run with small rate-limit bursts
MaxDenied == 4
\* frames handled in a run with good and bad input
MaxServed == 3
\* frames handled in a run with connections that close
MaxClosing == 2
\* frames handled in a run of REQ and CLOSE frames
MaxSubs == 3
\* WebSocket objects the client hook creates in a run
MaxSockets == 8
\* frames handled in a run of frames that are no valid event
MaxQuiet == 6
\* frames handled in a run with a busy connection
MaxBusy == 4
\* frames handled in a run with two connections
MaxCast == 4
\* frames handled in a run of the size check
MaxSized == 3
\* largest MAX_STORED_EVENTS of the store runs
MaxStoreCap == 2
\* frames handled in a run of the store
MaxStored == 4

-----------------------------------------------------------------------------
(* Configuration, lines 7-16 *)

DefaultEnv ==
  [ MIN_QUORUM |-> 3, FETCH_RETRIES |-> 1, CACHE_TTL_MS |-> 2000,
    MAX_REQUEST_MAXAGE_MS |-> 60000, MAX_EVENT_BYTES |-> 64000,
    MAX_STORED_EVENTS |-> 10000, RATE_IP_RPS |-> 3, RATE_PUBKEY_RPS |-> 2,
    RATE_BURST |-> 10 ]

MIN_QUORUM == env.MIN_QUORUM
FETCH_RETRIES == env.FETCH_RETRIES
CACHE_TTL_MS == env.CACHE_TTL_MS
MAX_REQUEST_MAXAGE_MS == env.MAX_REQUEST_MAXAGE_MS
MAX_EVENT_BYTES == env.MAX_EVENT_BYTES
MAX_STORED_EVENTS == env.MAX_STORED_EVENTS
RATE_IP_RPS == env.RATE_IP_RPS
RATE_PUBKEY_RPS == env.RATE_PUBKEY_RPS
RATE_BURST == env.RATE_BURST

KIND_PRICE_REQ == 38000
KIND_PRICE_RES == 38001
KIND_PRICE_ERR == 38002

ALL_SOURCES == <<"coinbase", "kraken", "coingecko", "bitstamp">>

RELAY_PUBKEY_HEX == "relay"

-----------------------------------------------------------------------------
(* Sequence helpers standing for the JavaScript array methods used *)

Range(s) == { s[i] : i \in DOMAIN s }

includes(s, x) == \E i \in DOMAIN s : s[i] = x

Min(a, b) == IF a <= b THEN a ELSE b

RECURSIVE filterSeq(_, _)
filterSeq(s, keep) ==
  IF s = << >> THEN << >>
  ELSE IF keep[1] THEN << s[1] >> \o filterSeq(Tail(s), Tail(keep))
       ELSE filterSeq(Tail(s), Tail(keep))

RECURSIVE Sum(_)
Sum(s) == IF s = << >> THEN 0 ELSE s[1] + Sum(Tail(s))

\* Array.prototype.sort((a, b) => key(a) - key(b)): stable, ascending.
\* The elements are paired with their keys first.
RECURSIVE insertSorted(_, _)
insertSorted(s, x) ==
  IF s = << >> THEN << x >>
  ELSE IF x.key < s[1].key THEN << x >> \o s
       ELSE << s[1] >> \o insertSorted(Tail(s), x)

\* a variant that leaves the order as it is
sortKeyedNot(s) == s

RECURSIVE sortKeyed(_)
sortKeyed(s) ==
  IF s = << >> THEN << >>
  ELSE insertSorted(sortKeyed(SubSeq(s, 1, Len(s) - 1)), s[Len(s)])

sortBy(s, key(_)) ==
  LET keyed == [i \in DOMAIN s |-> [key |-> key(s[i]), item |-> s[i]]]
      sorted == sortKeyed(keyed)
  IN  [i \in DOMAIN sorted |-> sorted[i].item]

-----------------------------------------------------------------------------
(* nowSec, lines 21-23 *)

nowSec == now \div 1000

(* median, mean, aggregate: lines 77-102 *)

SelfKey(v) == v
ValueKey(smp) == smp.value

\* a variant that takes the upper middle value whatever the count
medianUpper(values) ==
  LET arr == sortBy(values, SelfKey)
      mid == Len(arr) \div 2
  IN  [num |-> arr[mid + 1], den |-> 1]

median(values) ==
  LET arr == sortBy(values, SelfKey)
      mid == Len(arr) \div 2
  IN  IF Len(arr) % 2 = 0
        THEN [num |-> arr[mid] + arr[mid + 1], den |-> 2]
        ELSE [num |-> arr[mid + 1], den |-> 1]

mean(values) == [num |-> Sum(values), den |-> Len(values)]

sampleValues(samples) == [i \in DOMAIN samples |-> samples[i].value]
sampleSources(samples) == [i \in DOMAIN samples |-> samples[i].source]

\* a variant that trims from four samples on
aggregateTrimFour(samples, method) ==
  LET values == sampleValues(samples) IN
  IF Len(values) = 0
    THEN [thrown |-> TRUE, value |-> [num |-> 0, den |-> 1], method |-> "", used |-> << >>]
  ELSE IF method = "trimmed_mean" /\ Len(samples) >= 4
    THEN LET sorted == sortBy(samples, ValueKey)
             used == SubSeq(sorted, 2, Len(sorted) - 1)
         IN  [thrown |-> FALSE, value |-> mean(sampleValues(used)),
              method |-> "trimmed_mean", used |-> used]
  ELSE IF Len(samples) >= 3
    THEN [thrown |-> FALSE, value |-> median(values), method |-> "median", used |-> samples]
  ELSE [thrown |-> FALSE, value |-> mean(values), method |-> "mean", used |-> samples]

\* thrown is TRUE where the code throws "no samples"
aggregate(samples, method) ==
  LET values == sampleValues(samples) IN
  IF Len(values) = 0
    THEN [thrown |-> TRUE, value |-> [num |-> 0, den |-> 1], method |-> "", used |-> << >>]
  ELSE IF method = "trimmed_mean" /\ Len(samples) >= 5
    THEN LET sorted == sortBy(samples, ValueKey)
             used == SubSeq(sorted, 2, Len(sorted) - 1)
         IN  [thrown |-> FALSE, value |-> mean(sampleValues(used)),
              method |-> "trimmed_mean", used |-> used]
  ELSE IF Len(samples) >= 3
    THEN [thrown |-> FALSE, value |-> median(values), method |-> "median", used |-> samples]
  ELSE [thrown |-> FALSE, value |-> mean(values), method |-> "mean", used |-> samples]

-----------------------------------------------------------------------------
(* RateLimiter, lines 104-121.  buckets is a function from the keys seen so *)
(* far to [tokens, last]; tokens are thousandths.                           *)

\* a variant whose fresh bucket starts one token short
bucketOfShort(buckets, key, nowMs, burst) ==
  IF key \in DOMAIN buckets THEN buckets[key]
  ELSE [tokens |-> (burst - 1) * 1000, last |-> nowMs]

bucketOf(buckets, key, nowMs, burst) ==
  IF key \in DOMAIN buckets THEN buckets[key]
  ELSE [tokens |-> burst * 1000, last |-> nowMs]

\* a variant that refills without the cap at burst
refillUncapped(b, nowMs, rps, burst) ==
  b.tokens + (nowMs - b.last) * rps

refill(b, nowMs, rps, burst) ==
  Min(burst * 1000, b.tokens + (nowMs - b.last) * rps)

allow(buckets, key, nowMs, rps, burst) ==
  LET b == bucketOf(buckets, key, nowMs, burst)
      tokens == refill(b, nowMs, rps, burst)
      admit == ~(tokens < 1000)
      nb == [tokens |-> IF admit THEN tokens - 1000 ELSE tokens, last |-> nowMs]
  IN  [admit |-> admit,
       buckets |-> [k \in DOMAIN buckets \cup {key} |-> IF k = key THEN nb ELSE buckets[k]]]

-----------------------------------------------------------------------------
(* priceCache, cacheGet, cacheSet: lines 126-137 *)

NoCache == [present |-> FALSE, tsMs |-> 0, samples |-> << >>]

\* a variant that returns the entry whatever its age
cacheGetAnyAge ==
  IF ~priceCache.present THEN [hit |-> FALSE, ageMs |-> 0, samples |-> << >>]
  ELSE [hit |-> TRUE, ageMs |-> now - priceCache.tsMs, samples |-> priceCache.samples]

cacheGet ==
  IF ~priceCache.present THEN [hit |-> FALSE, ageMs |-> 0, samples |-> << >>]
  ELSE LET ageMs == now - priceCache.tsMs IN
       IF ageMs > CACHE_TTL_MS THEN [hit |-> FALSE, ageMs |-> 0, samples |-> << >>]
       ELSE [hit |-> TRUE, ageMs |-> ageMs, samples |-> priceCache.samples]

cacheSet(samples) == [present |-> TRUE, tsMs |-> now, samples |-> samples]

-----------------------------------------------------------------------------
(* storeEvent, matchFilter, queryEvents: lines 201-248 *)

\* a variant that evicts from the tail
\* a variant that keeps one event per id
storeEventOnce(evs, evt) ==
  IF \E k \in DOMAIN evs : evs[k].id = evt.id THEN evs
  ELSE LET pushed == Append(evs, evt) IN
       IF Len(pushed) > MAX_STORED_EVENTS
         THEN SubSeq(pushed, Len(pushed) - MAX_STORED_EVENTS + 1, Len(pushed))
         ELSE pushed

storeEventKeepHead(evs, evt) ==
  LET pushed == Append(evs, evt) IN
  IF Len(pushed) > MAX_STORED_EVENTS
    THEN SubSeq(pushed, 1, MAX_STORED_EVENTS)
    ELSE pushed

storeEvent(evs, evt) ==
  LET pushed == Append(evs, evt) IN
  IF Len(pushed) > MAX_STORED_EVENTS
    THEN SubSeq(pushed, Len(pushed) - MAX_STORED_EVENTS + 1, Len(pushed))
    ELSE pushed

-----------------------------------------------------------------------------
(* JSON values as the code inspects them.  t is the JavaScript type; n, s  *)
(* and a hold a number, a string or an array.                              *)

JsUndef == [t |-> "undefined", n |-> 0, s |-> "", a |-> << >>]
JsNum(x) == [t |-> "number", n |-> x, s |-> "", a |-> << >>]
JsStr(x) == [t |-> "string", n |-> 0, s |-> x, a |-> << >>]
JsArr(x) == [t |-> "array", n |-> 0, s |-> "", a |-> x]
JsObj == [t |-> "object", n |-> 0, s |-> "", a |-> << >>]
JsNull == [t |-> "null", n |-> 0, s |-> "", a |-> << >>]

\* a ?? b
Coalesce(a, b) == IF a.t \in {"undefined", "null"} THEN b ELSE a

\* Number(x) for the values above; nan marks NaN
Number(x) ==
  IF x.t = "number" THEN [nan |-> FALSE, n |-> x.n]
  ELSE IF x.t = "null" THEN [nan |-> FALSE, n |-> 0]
  ELSE [nan |-> TRUE, n |-> 0]

\* Math.min(x, c) for a Number() result x and an integer c
MathMin(x, c) == IF x.nan THEN x ELSE [nan |-> FALSE, n |-> Min(x.n, c)]

\* a variant that asks for strictly less
LtNumber(a, x) == ~x.nan /\ a < x.n

\* a <= x for an integer a and a Number() result x: false against NaN
LeqNumber(a, x) == ~x.nan /\ a <= x.n

-----------------------------------------------------------------------------
(* Events.  content is [text, json, body]: text is the string, json says   *)
(* whether JSON.parse accepts it and body is what it parses to.            *)

EmptyBody == [pair |-> JsUndef, method |-> JsUndef, sources |-> JsUndef, maxAgeMs |-> JsUndef]

\* safeJsonParse(evt.content) ?? {}, lines 25-31 and 352
safeJsonParse(content) == IF content.json THEN content.body ELSE EmptyBody

\* a variant that finds no tag
getTagNever(evt, name) == JsNull

\* getTag, lines 33-38
getTag(evt, name) ==
  LET hits == { i \in DOMAIN evt.tags :
                  /\ Len(evt.tags[i]) >= 2
                  /\ evt.tags[i][1] = name
                  /\ evt.tags[i][2] # "" }
  IN  IF hits = {} THEN JsNull
      ELSE JsStr(evt.tags[CHOOSE i \in hits : \A j \in hits : i <= j][2])

\* A tag is a sequence of strings; an element that is not a JSON string
\* (the code copies body.pair into a tag unchecked) is written NonString
NonString == "[object Object]"

tagElem(x) == IF x.t = "string" THEN x.s ELSE NonString

RECURSIVE joinText(_, _)
joinText(s, sep) ==
  IF s = << >> THEN ""
  ELSE IF Len(s) = 1 THEN s[1]
  ELSE s[1] \o sep \o joinText(Tail(s), sep)

\* JSON.stringify of an array of strings and of an array of such arrays
listText(s) == "[" \o joinText(s, ",") \o "]"
tagsText(tags) == listText([i \in DOMAIN tags |-> listText(tags[i])])

\* [0, pubkey, created_at, kind, tags, content]
serializeEvent(e) ==
  listText(<<"0", e.pubkey, ToString(e.created_at), ToString(e.kind),
             tagsText(e.tags), e.content.text>>)

\* SHA-256 of the serialization
getEventHash(e) == "sha256" \o serializeEvent(e)

schnorrSign(pubkey, id) == [by |-> pubkey, over |-> id]

NoSig == [by |-> "", over |-> ""]

\* nostr-tools verifyEvent as called on line 51: the id is the hash of the
\* canonical form and the signature is by the event's pubkey over that id
nostrVerifyEvent(evt) ==
  /\ evt.id = getEventHash(evt)
  /\ evt.sig = schnorrSign(evt.pubkey, evt.id)

\* a variant that takes every event for valid
verifyEventAny(evt) == TRUE

\* a variant that checks the id and not the signature
verifyEventIdOnly(evt) ==
  IF evt.id = "" \/ evt.pubkey = "" \/ evt.sig = NoSig THEN FALSE
  ELSE evt.id = getEventHash(evt)

\* verifyEvent, lines 40-60
verifyEvent(evt) ==
  IF evt.id = "" \/ evt.pubkey = "" \/ evt.sig = NoSig THEN FALSE
  ELSE nostrVerifyEvent(evt)

\* nostr-tools finalizeEvent as called on line 73: it refuses to serialize
\* a template that has a tag element of type object
validTags(tags) ==
  \A i \in DOMAIN tags : \A j \in DOMAIN tags[i] : tags[i][j] # NonString

\* signEvent, lines 62-75
signEvent(kind, tags, content) ==
  LET tmpl == [pubkey |-> RELAY_PUBKEY_HEX, created_at |-> nowSec, kind |-> kind,
               tags |-> tags, content |-> content]
      id == getEventHash(tmpl)
  IN  [thrown |-> ~validTags(tags),
       evt |-> [id |-> id, pubkey |-> RELAY_PUBKEY_HEX, created_at |-> nowSec,
                kind |-> kind, tags |-> tags, content |-> content,
                sig |-> schnorrSign(RELAY_PUBKEY_HEX, id)]]

-----------------------------------------------------------------------------
(* NostrFilter, matchFilter, queryEvents: lines 208-248.  A filter is      *)
(* [isNull, ids, kinds, authors, since, until, limit, tags] with JSON      *)
(* values in the fields; tags lists the "#x" keys as [name, want].         *)

NoFilter ==
  [isNull |-> FALSE, ids |-> JsUndef, kinds |-> JsUndef, authors |-> JsUndef,
   since |-> JsUndef, until |-> JsUndef, limit |-> JsUndef, tags |-> << >>]

\* if (f.xs && Array.isArray(f.xs) && !f.xs.includes(v)) return false
listRejects(xs, v) == xs.t = "array" /\ ~includes(xs.a, v)

\* f.since and f.until are tested for truthiness first
truthyNumber(x) == x.t = "number" /\ x.n # 0

tagValues(evt, tagName) ==
  LET keep == [i \in DOMAIN evt.tags |-> Len(evt.tags[i]) >= 1 /\ evt.tags[i][1] = tagName]
      hits == filterSeq(evt.tags, keep)
  IN  [i \in DOMAIN hits |-> IF Len(hits[i]) >= 2 THEN hits[i][2] ELSE NonString]

\* the loop over the "#x" keys, from key i on
RECURSIVE matchTags(_, _, _)
matchTags(evt, tags, i) ==
  IF i > Len(tags) THEN [thrown |-> FALSE, match |-> TRUE]
  ELSE LET want == Coalesce(tags[i].want, JsArr(<< >>))
           have == tagValues(evt, tags[i].name)
       IN  IF want.t # "array" THEN [thrown |-> TRUE, match |-> FALSE]
           ELSE IF ~(\E k \in DOMAIN want.a : includes(have, want.a[k]))
             THEN [thrown |-> FALSE, match |-> FALSE]
           ELSE matchTags(evt, tags, i + 1)

\* thrown is TRUE where the code throws a TypeError
matchFilter(evt, f) ==
  IF f.isNull THEN [thrown |-> TRUE, match |-> FALSE]
  ELSE IF listRejects(f.ids, evt.id) THEN [thrown |-> FALSE, match |-> FALSE]
  ELSE IF listRejects(f.kinds, evt.kind) THEN [thrown |-> FALSE, match |-> FALSE]
  ELSE IF listRejects(f.authors, evt.pubkey) THEN [thrown |-> FALSE, match |-> FALSE]
  ELSE IF truthyNumber(f.since) /\ evt.created_at < f.since.n
    THEN [thrown |-> FALSE, match |-> FALSE]
  ELSE IF truthyNumber(f.until) /\ evt.created_at > f.until.n
    THEN [thrown |-> FALSE, match |-> FALSE]
  ELSE matchTags(evt, f.tags, 1)

\* the inner loop of queryEvents, from index i down
RECURSIVE walkStore(_, _, _, _, _)
walkStore(evs, f, limit, i, matched) ==
  IF ~(i >= 1 /\ ~limit.nan /\ Len(matched) < limit.n)
    THEN [thrown |-> FALSE, out |-> matched]
  ELSE LET m == matchFilter(evs[i], f) IN
       IF m.thrown THEN [thrown |-> TRUE, out |-> << >>]
       ELSE walkStore(evs, f, limit, i - 1,
                      IF m.match THEN Append(matched, evs[i]) ELSE matched)

\* the outer loop of queryEvents, from filter k on
RECURSIVE queryFrom(_, _, _, _)
queryFrom(evs, filters, k, out) ==
  IF k > Len(filters) THEN [thrown |-> FALSE, out |-> out]
  ELSE IF filters[k].isNull THEN [thrown |-> TRUE, out |-> << >>]
  ELSE LET limit == MathMin(Number(Coalesce(filters[k].limit, JsNum(200))), 2000)
           r == walkStore(evs, filters[k], limit, Len(evs), << >>)
       IN  IF r.thrown THEN [thrown |-> TRUE, out |-> << >>]
           ELSE queryFrom(evs, filters, k + 1, out \o r.out)

queryEvents(evs, filters) == queryFrom(evs, filters, 1, << >>)

-----------------------------------------------------------------------------
(* Upstream exchanges and fetchPrice, lines 139-197 *)

\* what an exchange quotes at time t (the environment): 60000, 60010, 60020
\* and 61000 when the relay starts, drifting upwards afterwards
ticker(source, t) ==
  (CASE source = "coinbase" -> 60000
     [] source = "kraken" -> 60010
     [] source = "coingecko" -> 60020
     [] OTHER -> 61000) + ((t - T0) % 1000) + ((t - T0) \div 1000)

\* one HTTP attempt: ok says fetchJson returned a body, price is the field read
GoodReply(source, t) == [ok |-> TRUE, price |-> JsNum(ticker(source, t))]
BadReply == [ok |-> FALSE, price |-> JsUndef]

\* the body of the switch: Number(price) must be finite
parseReply(source, ts, reply) ==
  LET price == Number(reply.price) IN
  IF ~includes(ALL_SOURCES, source) \/ ~reply.ok \/ price.nan
    THEN [fulfilled |-> FALSE, value |-> [source |-> source, value |-> 0, ts |-> ts]]
    ELSE [fulfilled |-> TRUE, value |-> [source |-> source, value |-> price.n, ts |-> ts]]

\* withRetries, lines 151-161: attempt i of replies, the last error if all fail
RECURSIVE withRetries(_, _, _, _, _)
withRetries(source, ts, replies, i, retries) ==
  LET r == parseReply(source, ts, replies[i + 1]) IN
  IF r.fulfilled \/ i >= retries THEN r
  ELSE withRetries(source, ts, replies, i + 1, retries)

fetchPrice(source, ts, replies) == withRetries(source, ts, replies, 0, FETCH_RETRIES)

\* results.filter(fulfilled).map(value), line 408
fulfilledValues(results) ==
  LET keep == [i \in DOMAIN results |-> results[i].fulfilled]
      kept == filterSeq(results, keep)
  IN  [i \in DOMAIN kept |-> kept[i].value]

-----------------------------------------------------------------------------
(* Connections and frames *)

Conns == {"c1", "c2"}

\* req.socket.remoteAddress of each connection
IpOf(c) == IF c = "c1" THEN "10.0.0.1" ELSE "10.0.0.2"

NoEvent ==
  [id |-> "", pubkey |-> "", created_at |-> 0, kind |-> 0, tags |-> << >>,
   content |-> [text |-> "", json |-> FALSE, body |-> EmptyBody], sig |-> NoSig]

\* frames the relay sends
OkFrame(id, ok, text) ==
  [type |-> "OK", id |-> id, ok |-> ok, text |-> text, sub |-> "", evt |-> NoEvent]
NoticeFrame(text) ==
  [type |-> "NOTICE", id |-> "", ok |-> FALSE, text |-> text, sub |-> "", evt |-> NoEvent]
EventFrame(e) ==
  [type |-> "EVENT", id |-> "", ok |-> FALSE, text |-> "", sub |-> "", evt |-> e]
SubEventFrame(subId, e) ==
  [type |-> "EVENT", id |-> "", ok |-> FALSE, text |-> "", sub |-> subId, evt |-> e]
EoseFrame(subId) ==
  [type |-> "EOSE", id |-> "", ok |-> FALSE, text |-> "", sub |-> subId, evt |-> NoEvent]

\* a variant that holds a frame back while a fetch for another connection is
\* pending
sendHeld(cl, ws, msg) ==
  IF cl[ws].state = "open"
       /\ ~\E i \in DOMAIN handlers : handlers[i].pc = "fetching" /\ handlers[i].ws # ws
    THEN [cl EXCEPT ![ws].out = Append(@, msg)] ELSE cl

\* send, lines 285-289
send(cl, ws, msg) ==
  IF cl[ws].state = "open" THEN [cl EXCEPT ![ws].out = Append(@, msg)] ELSE cl

RECURSIVE sendAll(_, _, _)
sendAll(cl, ws, msgs) ==
  IF msgs = << >> THEN cl ELSE sendAll(send(cl, ws, msgs[1]), ws, Tail(msgs))

\* a variant that puts the frame ahead of what was sent before
broadcastAhead(cl, msg) ==
  [c \in DOMAIN cl |-> IF cl[c].state = "open"
                         THEN [cl[c] EXCEPT !.out = << msg >> \o @] ELSE cl[c]]

\* broadcast, lines 291-299
broadcast(cl, msg) ==
  [c \in DOMAIN cl |-> IF cl[c].state = "open"
                         THEN [cl[c] EXCEPT !.out = Append(@, msg)] ELSE cl[c]]

\* a variant that asks the pubkey limiter first
\* a variant that gives the IP token back when the pubkey limiter denies
admissionAtomic(ipB, pubB, ip, pubkey, nowMs) ==
  LET ipR == allow(ipB, "ip:" \o ip, nowMs, RATE_IP_RPS, RATE_BURST) IN
  IF ~ipR.admit
    THEN [reason |-> "rate limited (ip)", ip |-> ipR.buckets, pub |-> pubB]
  ELSE LET pubR == allow(pubB, "pub:" \o pubkey, nowMs, RATE_PUBKEY_RPS, RATE_BURST) IN
       IF ~pubR.admit
         THEN [reason |-> "rate limited (pubkey)", ip |-> ipB, pub |-> pubR.buckets]
         ELSE [reason |-> "accepted", ip |-> ipR.buckets, pub |-> pubR.buckets]

admissionPubFirst(ipB, pubB, ip, pubkey, nowMs) ==
  LET pubR == allow(pubB, "pub:" \o pubkey, nowMs, RATE_PUBKEY_RPS, RATE_BURST) IN
  IF ~pubR.admit
    THEN [reason |-> "rate limited (pubkey)", ip |-> ipB, pub |-> pubR.buckets]
  ELSE LET ipR == allow(ipB, "ip:" \o ip, nowMs, RATE_IP_RPS, RATE_BURST) IN
       IF ~ipR.admit
         THEN [reason |-> "rate limited (ip)", ip |-> ipR.buckets, pub |-> pubR.buckets]
         ELSE [reason |-> "accepted", ip |-> ipR.buckets, pub |-> pubR.buckets]

\* the two limiter calls of lines 339-346: IP first, pubkey only if IP admits
admission(ipB, pubB, ip, pubkey, nowMs) ==
  LET ipR == allow(ipB, "ip:" \o ip, nowMs, RATE_IP_RPS, RATE_BURST) IN
  IF ~ipR.admit
    THEN [reason |-> "rate limited (ip)", ip |-> ipR.buckets, pub |-> pubB]
  ELSE LET pubR == allow(pubB, "pub:" \o pubkey, nowMs, RATE_PUBKEY_RPS, RATE_BURST) IN
       IF ~pubR.admit
         THEN [reason |-> "rate limited (pubkey)", ip |-> ipR.buckets, pub |-> pubR.buckets]
         ELSE [reason |-> "accepted", ip |-> ipR.buckets, pub |-> pubR.buckets]

-----------------------------------------------------------------------------
(* The price request branch, lines 351-459 *)

\* lines 352-356
requestPair(evt) ==
  LET body == safeJsonParse(evt.content) IN
  Coalesce(Coalesce(body.pair, getTag(evt, "pair")), JsStr("BTC-USD"))

requestMethod(evt) ==
  LET m == Coalesce(safeJsonParse(evt.content).method, JsStr("trimmed_mean")) IN
  IF m.t = "string" THEN m.s ELSE NonString

\* a variant that ignores the request's maxAgeMs
requestMaxAgeMsDefault(evt) ==
  MathMin(Number(JsNum(20000)), MAX_REQUEST_MAXAGE_MS)

requestMaxAgeMs(evt) ==
  MathMin(Number(Coalesce(safeJsonParse(evt.content).maxAgeMs, JsNum(20000))),
          MAX_REQUEST_MAXAGE_MS)

\* lines 404-405
requestSources(evt) ==
  LET given == safeJsonParse(evt.content).sources
      wantedSources ==
        IF given.t = "array"
          THEN filterSeq(given.a, [i \in DOMAIN given.a |-> includes(ALL_SOURCES, given.a[i])])
          ELSE ALL_SOURCES
  IN  IF Len(wantedSources) # 0 THEN wantedSources ELSE ALL_SOURCES

replyTags(evt, marker, pair) ==
  << <<"e", evt.id, "reply">>, <<"p", evt.pubkey>>, <<"t", marker>>,
     <<"pair", tagElem(pair)>> >>

srcTags(used) == [i \in DOMAIN used |-> <<"src", used[i].source>>]

\* JSON.stringify of the objects the relay sends
sampleText(smp) ==
  "{" \o smp.source \o "," \o ToString(smp.value) \o "," \o ToString(smp.ts) \o "}"

stringify(body) ==
  IF "error" \in DOMAIN body /\ "need" \in DOMAIN body
    THEN "{" \o body.error \o "," \o ToString(body.need) \o "," \o ToString(body.got)
         \o "," \o listText(body.sources_requested) \o "}"
  ELSE IF "error" \in DOMAIN body
    THEN "{" \o body.error \o "," \o tagElem(body.pair) \o "}"
  ELSE "{" \o tagElem(body.pair) \o "," \o ToString(body.ts) \o ","
       \o ToString(body.value.num) \o "/" \o ToString(body.value.den) \o ","
       \o body.method \o "," \o listText(body.sources_used) \o ","
       \o listText([i \in DOMAIN body.samples |-> sampleText(body.samples[i])]) \o ","
       \o (IF body.cache.hit THEN "hit" ELSE "miss") \o "," \o ToString(body.cache.ageMs)
       \o "}"

relayContent(body) == [text |-> stringify(body), json |-> TRUE, body |-> body]

\* lines 361-370
unsupportedPairEvent(evt, pair) ==
  signEvent(KIND_PRICE_ERR, replyTags(evt, "price-error", pair),
            relayContent([error |-> "unsupported pair", pair |-> pair]))

\* lines 411-425
quorumErrorEvent(evt, pair, samples, sources) ==
  signEvent(KIND_PRICE_ERR, replyTags(evt, "price-error", pair),
            relayContent([error |-> "insufficient quorum", need |-> MIN_QUORUM,
                          got |-> Len(samples), sources_requested |-> sources]))

\* lines 378-397 and 434-454
responseEvent(evt, pair, agg, hit, ageMs) ==
  signEvent(KIND_PRICE_RES, replyTags(evt, "price", pair) \o srcTags(agg.used),
            relayContent([pair |-> pair, ts |-> now, value |-> agg.value,
                          method |-> agg.method,
                          sources_used |-> sampleSources(agg.used),
                          samples |-> agg.used,
                          cache |-> [hit |-> hit, ageMs |-> ageMs]]))

-----------------------------------------------------------------------------
(* The "message" callback, lines 318-481.  Each frame starts one           *)
(* invocation; an invocation runs without interruption up to its next      *)
(* await: after verifyEvent (line 333), after signEvent (lines 361, 379,   *)
(* 411, 436) and at Promise.allSettled (line 407).  The first two await a  *)
(* value that is already there: the invocation resumes from the microtask  *)
(* queue, in queue order, before the event loop takes the next task.  The  *)
(* only callbacks that can run in between are "message" callbacks for      *)
(* further frames that arrived in the same chunk on the same socket.       *)

idle == microtasks = << >>

\* further frames of the chunk whose first frames are waiting at line 333
sameChunk(ws) ==
  \A k \in DOMAIN microtasks :
    handlers[microtasks[k]].pc = "verified" /\ handlers[microtasks[k]].ws = ws

\* an inbound frame: bytes is the length of the payload, chars is
\* raw.toString().length (UTF-16 code units), json and isArray say
\* what safeJsonParse returns, len is msg.length
EventMsg(e) ==
  [chars |-> 400, bytes |-> 400, json |-> TRUE, isArray |-> TRUE, len |-> 2, type |-> "EVENT",
   evt |-> e, subId |-> "", filters |-> << >>]
ReqMsg(subId, filters) ==
  [chars |-> 100, bytes |-> 100, json |-> TRUE, isArray |-> TRUE, len |-> 2 + Len(filters),
   type |-> "REQ", evt |-> NoEvent, subId |-> subId, filters |-> filters]
CloseMsg(subId) ==
  [chars |-> 20, bytes |-> 20, json |-> TRUE, isArray |-> TRUE, len |-> 2, type |-> "CLOSE",
   evt |-> NoEvent, subId |-> subId, filters |-> << >>]

NaNumber == [nan |-> TRUE, n |-> 0]

NewHandler(ws, msg) ==
  [ws |-> ws, type |-> msg.type, evt |-> msg.evt, pc |-> "done", ok |-> FALSE,
   reason |-> "", pair |-> JsUndef, method |-> "", maxAgeMs |-> NaNumber,
   sources |-> << >>, startedAt |-> 0, succeeded |-> 0, samples |-> << >>,
   hit |-> FALSE, signed |-> NoEvent, terminals |-> 0,
   filters |-> msg.filters, found |-> << >>, latest |-> NoEvent,
   bytes |-> msg.bytes, subId |-> msg.subId]

\* REQ, lines 464-474: the table entry is set before the query can throw
onReq(cl, ws, msg) ==
  LET withSub == [cl EXCEPT ![ws].subs =
                    [k \in DOMAIN @ \cup {msg.subId} |->
                       IF k = msg.subId THEN msg.filters ELSE @[k]]]
      found == queryEvents(events, msg.filters)
  IN  IF found.thrown THEN withSub
      ELSE send(sendAll(withSub, ws,
                        [i \in DOMAIN found.out |-> SubEventFrame(msg.subId, found.out[i])]),
                ws, EoseFrame(msg.subId))

\* CLOSE, lines 476-480
onClose(cl, ws, msg) ==
  [cl EXCEPT ![ws].subs = [k \in DOMAIN @ \ {msg.subId} |-> @[k]]]

\* lines 319-333: from the arrival of a frame to the first await
Message(ws, msg) ==
  /\ clients[ws].state = "open"
  /\ sameChunk(ws)
  /\ microtasks' = IF msg.chars <= MAX_EVENT_BYTES /\ msg.json /\ msg.isArray
                       /\ msg.len >= 2 /\ msg.type = "EVENT"
                    THEN Append(microtasks, Len(handlers) + 1) ELSE microtasks
  /\ LET h == NewHandler(ws, msg) IN
     IF msg.chars > MAX_EVENT_BYTES
       THEN /\ clients' = send(clients, ws, NoticeFrame("payload too large"))
            /\ handlers' = Append(handlers, [h EXCEPT !.type = "oversize"])
     ELSE IF ~msg.json \/ ~msg.isArray \/ msg.len < 2
       THEN /\ clients' = clients
            /\ handlers' = Append(handlers, [h EXCEPT !.type = "ignored"])
     ELSE IF msg.type = "EVENT"
       THEN /\ clients' = clients
            /\ handlers' = Append(handlers,
                 [h EXCEPT !.pc = "verified", !.ok = verifyEvent(msg.evt)])
     ELSE IF msg.type = "REQ"
       THEN /\ clients' = onReq(clients, ws, msg)
            /\ handlers' = Append(handlers,
                 [h EXCEPT !.pc = IF queryEvents(events, msg.filters).thrown
                                    THEN "thrown" ELSE "done",
                           !.found = queryEvents(events, msg.filters).out,
                           !.latest = IF events = << >> THEN NoEvent
                                      ELSE events[Len(events)]])
     ELSE IF msg.type = "CLOSE"
       THEN /\ clients' = onClose(clients, ws, msg)
            /\ handlers' = Append(handlers, h)
     ELSE /\ clients' = clients
          /\ handlers' = Append(handlers, [h EXCEPT !.type = "ignored"])
  /\ UNCHANGED <<hook, env, now, events, priceCache, ipLimiter, pubLimiter, fetchCalls, trace, allowLog, probe>>

\* a variant that gives up when the requester has gone
afterSignIfOpen(h, r) ==
  IF r.thrown THEN [h EXCEPT !.pc = "thrown"]
  ELSE IF clients[h.ws].state # "open" THEN [h EXCEPT !.pc = "done"]
  ELSE [h EXCEPT !.pc = "signed", !.signed = r.evt]

\* a signEvent result, awaited: the invocation stops if signEvent threw
afterSign(h, r) ==
  IF r.thrown THEN [h EXCEPT !.pc = "thrown"]
  ELSE [h EXCEPT !.pc = "signed", !.signed = r.evt]

\* lines 351-407 for an accepted price request: up to the next await
startRequest(h) ==
  LET evt == h.evt
      pair == requestPair(evt)
      method == requestMethod(evt)
      maxAgeMs == requestMaxAgeMs(evt)
      cached == cacheGet
      h1 == [h EXCEPT !.pair = pair, !.method = method, !.maxAgeMs = maxAgeMs]
  IN  IF pair # JsStr("BTC-USD")
        THEN afterSign(h1, unsupportedPairEvent(evt, pair))
      ELSE IF cached.hit /\ LeqNumber(cached.ageMs, maxAgeMs)
        THEN LET agg == aggregate(cached.samples, method) IN
             IF agg.thrown THEN [h1 EXCEPT !.pc = "thrown"]
             ELSE afterSign([h1 EXCEPT !.hit = TRUE, !.samples = cached.samples],
                            responseEvent(evt, pair, agg, TRUE, cached.ageMs))
      ELSE [h1 EXCEPT !.pc = "fetching", !.sources = requestSources(evt),
                      !.startedAt = now]

\* fetchPrice is called once per entry of sources
countCalls(calls, sources) ==
  [s \in DOMAIN calls |-> calls[s] + Cardinality({i \in DOMAIN sources : sources[i] = s})]

\* lines 333-351: the invocation resumes after await verifyEvent
EventResume(i) ==
  /\ microtasks # << >> /\ Head(microtasks) = i
  /\ handlers[i].pc = "verified"
  /\ LET h == handlers[i]
         evt == h.evt
         adm == admission(ipLimiter, pubLimiter, clients[h.ws].ip, evt.pubkey, now)
     IN  IF ~h.ok
           THEN /\ clients' = send(clients, h.ws, OkFrame(evt.id, FALSE, "invalid: bad sig or id"))
                /\ handlers' = [handlers EXCEPT ![i].pc = "done", ![i].reason = "invalid"]
                /\ UNCHANGED <<events, ipLimiter, pubLimiter, fetchCalls, trace>>
         ELSE IF adm.reason # "accepted"
           THEN /\ ipLimiter' = adm.ip
                /\ pubLimiter' = adm.pub
                /\ clients' = send(clients, h.ws, OkFrame(evt.id, FALSE, adm.reason))
                /\ handlers' = [handlers EXCEPT ![i].pc = "done", ![i].reason = adm.reason]
                /\ UNCHANGED <<events, fetchCalls, trace>>
         ELSE LET h1 == [h EXCEPT !.pc = "done", !.reason = "accepted"]
                  h2 == IF evt.kind = KIND_PRICE_REQ THEN startRequest(h1) ELSE h1
              IN  /\ ipLimiter' = adm.ip
                  /\ pubLimiter' = adm.pub
                  /\ events' = storeEvent(events, evt)
                  /\ trace' = Append(trace, evt)
                  /\ clients' = send(clients, h.ws, OkFrame(evt.id, TRUE, "accepted"))
                  /\ handlers' = [handlers EXCEPT ![i] = h2]
                  /\ fetchCalls' = IF h2.pc = "fetching"
                                     THEN countCalls(fetchCalls, h2.sources)
                                     ELSE fetchCalls
  /\ microtasks' = IF handlers'[i].pc = "signed" THEN Append(Tail(microtasks), i)
                    ELSE Tail(microtasks)
  /\ UNCHANGED <<hook, env, now, priceCache, allowLog, probe>>

\* lines 408-454: all fetches have settled and the invocation resumes
\* a variant that asks for more than MIN_QUORUM samples
\* a variant that writes the cache whatever the number of samples
settleAlways(h, results) ==
  LET samples == fulfilledValues(results)
      h1 == [h EXCEPT !.samples = samples]
  IN  IF Len(samples) < MIN_QUORUM
        THEN [cached |-> TRUE,
              h |-> afterSign(h1, quorumErrorEvent(h.evt, h.pair, samples, h.sources))]
      ELSE LET agg == aggregate(samples, h.method) IN
           [cached |-> TRUE,
            h |-> IF agg.thrown THEN [h1 EXCEPT !.pc = "thrown"]
                  ELSE afterSign(h1, responseEvent(h.evt, h.pair, agg, FALSE, 0))]

settleStrict(h, results) ==
  LET samples == fulfilledValues(results)
      h1 == [h EXCEPT !.samples = samples]
  IN  IF Len(samples) <= MIN_QUORUM
        THEN [cached |-> FALSE,
              h |-> afterSign(h1, quorumErrorEvent(h.evt, h.pair, samples, h.sources))]
      ELSE LET agg == aggregate(samples, h.method) IN
           [cached |-> TRUE,
            h |-> IF agg.thrown THEN [h1 EXCEPT !.pc = "thrown"]
                  ELSE afterSign(h1, responseEvent(h.evt, h.pair, agg, FALSE, 0))]

settle(h, results) ==
  LET samples == fulfilledValues(results)
      h1 == [h EXCEPT !.samples = samples]
  IN  IF Len(samples) < MIN_QUORUM
        THEN [cached |-> FALSE,
              h |-> afterSign(h1, quorumErrorEvent(h.evt, h.pair, samples, h.sources))]
      ELSE LET agg == aggregate(samples, h.method) IN
           [cached |-> TRUE,
            h |-> IF agg.thrown THEN [h1 EXCEPT !.pc = "thrown"]
                  ELSE afterSign(h1, responseEvent(h.evt, h.pair, agg, FALSE, 0))]

FetchesSettled(i) ==
  /\ i \in DOMAIN handlers
  /\ handlers[i].pc = "fetching"
  /\ idle
  /\ LET h == handlers[i] IN
     \E down \in 0..Len(h.sources), flaky \in BOOLEAN :
       LET replies == [k \in DOMAIN h.sources |->
                         [a \in 1..(FETCH_RETRIES + 1) |->
                            IF k > down /\ (a > 1 \/ ~flaky) THEN GoodReply(h.sources[k], now)
                            ELSE BadReply]]
           results == [k \in DOMAIN h.sources |->
                         fetchPrice(h.sources[k], h.startedAt, replies[k])]
           r == settle(h, results)
           succeeded == Cardinality({k \in DOMAIN h.sources :
                                       \E a \in 1..(FETCH_RETRIES + 1) : replies[k][a].ok})
       IN  /\ priceCache' = IF r.cached THEN cacheSet(r.h.samples) ELSE priceCache
           /\ handlers' = [handlers EXCEPT ![i] = [r.h EXCEPT !.succeeded = succeeded]]
  /\ microtasks' = IF handlers'[i].pc = "signed" THEN << i >> ELSE << >>
  /\ UNCHANGED <<hook, env, now, events, ipLimiter, pubLimiter, clients, fetchCalls, trace, allowLog, probe>>

\* after await signEvent: storeEvent, broadcast, return
SignResume(i) ==
  /\ microtasks # << >> /\ Head(microtasks) = i
  /\ handlers[i].pc = "signed"
  /\ microtasks' = Tail(microtasks)
  /\ events' = storeEvent(events, handlers[i].signed)
  /\ trace' = Append(trace, handlers[i].signed)
  /\ clients' = broadcast(clients, EventFrame(handlers[i].signed))
  /\ handlers' = [handlers EXCEPT ![i].pc = "done", ![i].terminals = @ + 1]
  /\ UNCHANGED <<hook, env, now, priceCache, ipLimiter, pubLimiter, fetchCalls, allowLog, probe>>

\* a connection is accepted, lines 307-313
Connect(ws) ==
  /\ idle
  /\ clients[ws].state = "new"
  /\ clients' = [clients EXCEPT ![ws] =
       [state |-> "open", ip |-> IpOf(ws), subs |-> << >>,
        out |-> << NoticeFrame("connected") >>]]
  /\ UNCHANGED <<hook, env, now, events, priceCache, ipLimiter, pubLimiter, handlers, microtasks, fetchCalls, trace, allowLog, probe>>

\* the socket closes: it leaves wss.clients
Disconnect(ws) ==
  /\ idle
  /\ clients[ws].state = "open"
  /\ clients' = [clients EXCEPT ![ws].state = "closed"]
  /\ UNCHANGED <<hook, env, now, events, priceCache, ipLimiter, pubLimiter, handlers, microtasks, fetchCalls, trace, allowLog, probe>>

\* the promise of an invocation that threw is rejected and nobody handles
\* it: the listener of line 318 has no catch and the module registers no
\* "unhandledRejection" listener.  Once the microtask queue has drained the
\* runtime either only warns, or it ends the process, which closes every
\* socket: which of the two depends on the Node.js version and its flags.
UnhandledRejection(i) ==
  /\ idle
  /\ handlers[i].pc = "thrown"
  /\ \E exit \in BOOLEAN :
       /\ handlers' = [handlers EXCEPT ![i].pc = IF exit THEN "exited" ELSE "warned"]
       /\ clients' = IF exit
                       THEN [c \in Conns |->
                               [clients[c] EXCEPT !.state = IF @ = "open" THEN "closed" ELSE @]]
                       ELSE clients
  /\ UNCHANGED <<hook, env, now, events, priceCache, ipLimiter, pubLimiter, microtasks, fetchCalls, trace, allowLog, probe>>

\* the process is running
running == \A i \in DOMAIN handlers : handlers[i].pc # "exited"

\* no direct call yet
NoProbe == [args |-> << >>, called |-> FALSE, out |-> << >>]

-----------------------------------------------------------------------------
(* Clients of the relay: the events they sign and the frames they send *)

\* what a client's finalizeEvent produces, client/src/lib/nostr.ts 81-99
clientEvent(pubkey, created_at, kind, tags, content) ==
  LET tmpl == [pubkey |-> pubkey, created_at |-> created_at, kind |-> kind,
               tags |-> tags, content |-> content]
      id == getEventHash(tmpl)
  IN  [id |-> id, pubkey |-> pubkey, created_at |-> created_at, kind |-> kind,
       tags |-> tags, content |-> content, sig |-> schnorrSign(pubkey, id)]

Json(text, body) == [text |-> text, json |-> TRUE, body |-> body]
NotJson(text) == [text |-> text, json |-> FALSE, body |-> EmptyBody]

RequestTags == << <<"t", "price-request">>, <<"pair", "BTC-USD">> >>

\* the request the bundled client sends
ReqStandard ==
  clientEvent("alice", 5, KIND_PRICE_REQ, RequestTags,
    Json("{pair:BTC-USD,method:trimmed_mean,sources:[coinbase,kraken,coingecko,bitstamp],maxAgeMs:20000}",
         [pair |-> JsStr("BTC-USD"), method |-> JsStr("trimmed_mean"),
          sources |-> JsArr(ALL_SOURCES), maxAgeMs |-> JsNum(20000)]))

\* one source named three times, no cache tolerance
ReqRepeated ==
  clientEvent("bob", 5, KIND_PRICE_REQ, RequestTags,
    Json("{method:mean,sources:[coinbase,coinbase,coinbase],maxAgeMs:0}",
         [pair |-> JsUndef, method |-> JsStr("mean"),
          sources |-> JsArr(<<"coinbase", "coinbase", "coinbase">>),
          maxAgeMs |-> JsNum(0)]))

ReqEth ==
  clientEvent("alice", 6, KIND_PRICE_REQ, << >>,
    Json("{pair:ETH-USD}",
         [pair |-> JsStr("ETH-USD"), method |-> JsUndef, sources |-> JsUndef,
          maxAgeMs |-> JsUndef]))

\* the pair is a JSON object
ReqObjectPair ==
  clientEvent("bob", 6, KIND_PRICE_REQ, << >>,
    Json("{pair:{}}",
         [pair |-> JsObj, method |-> JsUndef, sources |-> JsUndef, maxAgeMs |-> JsUndef]))

\* maxAgeMs is not a number, one recognized source and one unknown
ReqOdd ==
  clientEvent("bob", 7, KIND_PRICE_REQ, RequestTags,
    Json("{method:median,sources:[kraken,binance],maxAgeMs:soon}",
         [pair |-> JsUndef, method |-> JsStr("median"),
          sources |-> JsArr(<<"kraken", "binance">>), maxAgeMs |-> JsStr("soon")]))

\* content is not JSON, the pair is only in a tag
ReqTagOnly ==
  clientEvent("alice", 7, KIND_PRICE_REQ, << <<"pair", "ETH-USD">> >>, NotJson("price?"))

\* content is not JSON and there is no pair tag
ReqBare == clientEvent("bob", 8, KIND_PRICE_REQ, << >>, NotJson("btc?"))

Note == clientEvent("alice", 8, 1, << >>, NotJson("gm"))

\* a request whose signature was made by another key
ReqForged == [ReqStandard EXCEPT !.sig = schnorrSign("mallory", ReqStandard.id)]

ClientEvents ==
  << ReqStandard, ReqRepeated, ReqEth, ReqObjectPair, ReqOdd, ReqTagOnly, Note, ReqForged,
     ReqBare >>

\* the filter the bundled client subscribes with, use-websocket.ts 145
ReplyFilter(requestId) ==
  [NoFilter EXCEPT !.kinds = JsArr(<<KIND_PRICE_RES, KIND_PRICE_ERR>>),
                   !.tags = << [name |-> "e", want |-> JsArr(<<requestId>>)] >>,
                   !.limit = JsNum(10)]

\* a request changed after it was signed: the id no longer matches
ReqTampered == [ReqStandard EXCEPT !.created_at = @ + 1]

\* the frames of the price specification: one per client event
PriceFrames == [i \in DOMAIN ClientEvents |-> EventMsg(ClientEvents[i])]

-----------------------------------------------------------------------------
(* The client hook useWebSocket, src/client/src/hooks/use-websocket.ts *)

\* before the effect has run: no socket, both refs null (0); closedByCleanup
\* is the socket on which the cleanup called close(), 0 for none
NoHook ==
  [phase |-> "init", status |-> "connecting", sockets |-> << >>, wsRef |-> 0,
   reconnectTimeoutRef |-> 0, timers |-> {}, closedByCleanup |-> 0]

\* connect, lines 47-121: new WebSocket may throw; a socket remembers
\* whether the hook was mounted when it was created
connect(h, throws) ==
  IF throws THEN [h EXCEPT !.status = "disconnected"]
  ELSE [h EXCEPT !.sockets = Append(@, [state |-> "connecting", born |-> h.phase]),
                 !.wsRef = Len(h.sockets) + 1,
                 !.status = "connecting"]

\* the effect, lines 123-124
HookMount ==
  /\ hook.phase = "init"
  /\ \E throws \in BOOLEAN : hook' = connect([hook EXCEPT !.phase = "mounted"], throws)
  /\ UNCHANGED <<env, now, events, priceCache, ipLimiter, pubLimiter, clients,
                 handlers, microtasks, fetchCalls, trace, allowLog, probe>>

\* the open listener, lines 55-58
SocketOpen(k) ==
  /\ k \in DOMAIN hook.sockets
  /\ hook.sockets[k].state = "connecting"
  /\ hook' = [hook EXCEPT !.sockets[k].state = "open", !.status = "connected"]
  /\ UNCHANGED <<env, now, events, priceCache, ipLimiter, pubLimiter, clients,
                 handlers, microtasks, fetchCalls, trace, allowLog, probe>>

\* the close listener, lines 60-68: the socket has closed, whatever closed
\* it; the timer is named after the socket
SocketClose(k) ==
  /\ k \in DOMAIN hook.sockets
  /\ hook.sockets[k].state \in {"connecting", "open", "closing"}
  /\ hook' = [hook EXCEPT !.sockets[k].state = "closed",
                          !.status = "disconnected",
                          !.reconnectTimeoutRef = k,
                          !.timers = @ \cup {k}]
  /\ UNCHANGED <<env, now, events, priceCache, ipLimiter, pubLimiter, clients,
                 handlers, microtasks, fetchCalls, trace, allowLog, probe>>

\* the timer callback, lines 64-67
TimerFires(k) ==
  /\ k \in hook.timers
  /\ Len(hook.sockets) < MaxSockets
  /\ \E throws \in BOOLEAN : hook' = connect([hook EXCEPT !.timers = @ \ {k}], throws)
  /\ UNCHANGED <<env, now, events, priceCache, ipLimiter, pubLimiter, clients,
                 handlers, microtasks, fetchCalls, trace, allowLog, probe>>

\* the cleanup of the effect, lines 126-133
HookUnmount ==
  /\ hook.phase = "mounted"
  /\ LET h1 == [hook EXCEPT !.phase = "unmounted",
                            !.timers = IF hook.reconnectTimeoutRef # 0
                                         THEN @ \ {hook.reconnectTimeoutRef} ELSE @]
     IN  hook' = IF hook.wsRef # 0 /\ hook.sockets[hook.wsRef].state \in {"connecting", "open"}
                   THEN [h1 EXCEPT !.sockets[hook.wsRef].state = "closing",
                                   !.closedByCleanup = hook.wsRef]
                   ELSE h1
  /\ UNCHANGED <<env, now, events, priceCache, ipLimiter, pubLimiter, clients,
                 handlers, microtasks, fetchCalls, trace, allowLog, probe>>

-----------------------------------------------------------------------------
(* The relay as a whole *)

\* the instants at which something happens
TimePoints == {T0, T0 + 1, T0 + 2000, T0 + 2001}

Tick ==
  /\ idle
  /\ \E t \in TimePoints : t > now /\ now' = t
  /\ UNCHANGED <<hook, env, events, priceCache, ipLimiter, pubLimiter, clients, handlers,
                 microtasks, fetchCalls, trace, allowLog, probe>>

Init ==
  /\ env = DefaultEnv
  /\ now = T0
  /\ events = << >>
  /\ priceCache = NoCache
  /\ ipLimiter = << >>
  /\ pubLimiter = << >>
  /\ clients = [c \in Conns |-> [state |-> "new", ip |-> IpOf(c), subs |-> << >>, out |-> << >>]]
  /\ handlers = << >>
  /\ microtasks = << >>
  /\ fetchCalls = [s \in Range(ALL_SOURCES) |-> 0]
  /\ trace = << >>
  /\ allowLog = << >>
  /\ probe = NoProbe
  /\ hook = NoHook

\* one client connects and sends events; time passes while fetches are pending
Next ==
  \/ Connect("c1")
  \/ \E k \in DOMAIN PriceFrames :
       Len(handlers) < MaxFrames /\ Message("c1", PriceFrames[k])
  \/ \E i \in DOMAIN handlers : EventResume(i)
  \/ \E i \in DOMAIN handlers : FetchesSettled(i)
  \/ \E i \in DOMAIN handlers : SignResume(i)
  \/ Tick

Spec == Init /\ [][Next]_vars

-----------------------------------------------------------------------------
(* The rate limiter alone: one RateLimiter, allow calls at any times *)

\* the keys the limiter is asked about
LimiterKeys == {"ip:" \o IpOf(c) : c \in Conns}

\* the refill rates tried: one token a second, and the IP default
LimiterRates == {1, DefaultEnv.RATE_IP_RPS}

\* how much the clock moves between calls: a third of a second, just short
\* of it and a full second
ClockSteps == {333, 334, 1000}

\* the same in every run that does not involve the relay
Quiet ==
  /\ events = << >>
  /\ priceCache = NoCache
  /\ pubLimiter = << >>
  /\ clients = [c \in Conns |-> [state |-> "new", ip |-> IpOf(c), subs |-> << >>, out |-> << >>]]
  /\ handlers = << >>
  /\ microtasks = << >>
  /\ fetchCalls = [s \in Range(ALL_SOURCES) |-> 0]
  /\ trace = << >>
  /\ probe = NoProbe
  /\ hook = NoHook

InitRL ==
  /\ \E r \in LimiterRates, b \in 1..MaxBurst :
       env = [DefaultEnv EXCEPT !.RATE_IP_RPS = r, !.RATE_BURST = b]
  /\ now = T0
  /\ ipLimiter = << >>
  /\ allowLog = << >>
  /\ Quiet

\* ipLimiter.allow(key) at the current time
Allow(key) ==
  /\ Len(allowLog) < MaxCalls
  /\ LET r == allow(ipLimiter, key, now, RATE_IP_RPS, RATE_BURST) IN
     /\ ipLimiter' = r.buckets
     /\ allowLog' = Append(allowLog, [key |-> key, at |-> now, admit |-> r.admit])
  /\ UNCHANGED <<hook, env, now, events, priceCache, pubLimiter, clients, handlers,
                 microtasks, fetchCalls, trace, probe>>

\* the clock moves on
Advance(d) ==
  /\ now + d <= T0 + Horizon
  /\ now' = now + d
  /\ UNCHANGED <<hook, env, events, priceCache, ipLimiter, pubLimiter, clients, handlers,
                 microtasks, fetchCalls, trace, allowLog, probe>>

NextRL ==
  \/ \E key \in LimiterKeys : Allow(key)
  \/ \E d \in ClockSteps : Advance(d)

SpecRL == InitRL /\ [][NextRL]_vars

-----------------------------------------------------------------------------
(* Admission: one connection sends valid events, in chunks of any size *)

\* the n-th text note of a client
NoteOf(pubkey, n) == clientEvent(pubkey, n, 1, << >>, NotJson("gm"))

\* who signs the n-th event: two keys take turns
SenderOf(n) == IF n % 2 = 1 THEN "alice" ELSE "bob"

\* the configured burst, and half of it
AdmitBursts == {DefaultEnv.RATE_BURST, DefaultEnv.RATE_BURST \div 2}

InitAdmit ==
  /\ \E b \in AdmitBursts : env = [DefaultEnv EXCEPT !.RATE_BURST = b]
  /\ now = T0
  /\ ipLimiter = << >>
  /\ allowLog = << >>
  /\ Quiet

NextAdmit ==
  \/ Connect("c1")
  \/ /\ Len(handlers) < MaxEvents
     /\ Message("c1", EventMsg(NoteOf(SenderOf(Len(handlers) + 1), Len(handlers) + 1)))
  \/ \E i \in DOMAIN handlers : EventResume(i)
  \/ Tick /\ now' \in {T0 + 1, T0 + 2000}

SpecAdmit == InitAdmit /\ [][NextAdmit]_vars

-----------------------------------------------------------------------------
(* The store: a small MAX_STORED_EVENTS, events and queries by id *)

idsFilter(id) == [NoFilter EXCEPT !.ids = JsArr(<< id >>)]

\* two notes, a request the relay answers with a 38002 it stores, and the
\* queries for two of them by id
StoreFrames ==
  << EventMsg(Note), EventMsg(NoteOf("bob", 9)), EventMsg(ReqEth),
     ReqMsg("q", << idsFilter(Note.id) >>), ReqMsg("q", << idsFilter(ReqEth.id) >>) >>

InitStore ==
  /\ \E cap \in 1..MaxStoreCap : env = [DefaultEnv EXCEPT !.MAX_STORED_EVENTS = cap]
  /\ now = T0
  /\ ipLimiter = << >>
  /\ allowLog = << >>
  /\ Quiet

NextStore ==
  \/ Connect("c1")
  \/ \E k \in DOMAIN StoreFrames :
       Len(handlers) < MaxStored /\ Message("c1", StoreFrames[k])
  \/ \E i \in DOMAIN handlers : EventResume(i)
  \/ \E i \in DOMAIN handlers : SignResume(i)

SpecStore == InitStore /\ [][NextStore]_vars

-----------------------------------------------------------------------------
(* aggregate alone: any list of samples, any method *)

\* the values samples may carry: ties are possible
SampleValues == {60000, 60010, 61000}

\* the methods asked for: the three named ones and an unknown one
Methods == {"trimmed_mean", "median", "mean", "twap"}

InitAgg ==
  /\ env = DefaultEnv
  /\ now = T0
  /\ ipLimiter = << >>
  /\ allowLog = << >>
  /\ Quiet

\* one more sample in the list that will be aggregated
AddSample(v) ==
  /\ ~probe.called
  /\ Len(probe.args) < MaxSamples
  /\ probe' = [probe EXCEPT !.args =
       Append(@, [source |-> ALL_SOURCES[(Len(@) % Len(ALL_SOURCES)) + 1],
                  value |-> v, ts |-> now])]
  /\ UNCHANGED <<hook, env, now, events, priceCache, ipLimiter, pubLimiter, clients,
                 handlers, microtasks, fetchCalls, trace, allowLog>>

\* aggregate(samples, method)
Aggregate(method) ==
  /\ ~probe.called
  /\ probe' = [probe EXCEPT !.called = TRUE,
                            !.out = << method, aggregate(probe.args, method) >>]
  /\ UNCHANGED <<hook, env, now, events, priceCache, ipLimiter, pubLimiter, clients,
                 handlers, microtasks, fetchCalls, trace, allowLog>>

NextAgg ==
  \/ \E v \in SampleValues : AddSample(v)
  \/ \E method \in Methods : Aggregate(method)

SpecAgg == InitAgg /\ [][NextAgg]_vars

-----------------------------------------------------------------------------
(* Subscriptions: events are stored, REQ frames ask for them *)

\* JSON null where a filter object is expected
NullFilter == [NoFilter EXCEPT !.isNull = TRUE]

\* REQ frames with no filter, one filter and two filters, with and without a
\* limit, and one whose filter is null
ReqFrames ==
  << ReqMsg("q", << >>),
     ReqMsg("q", << NoFilter >>),
     ReqMsg("q", << [NoFilter EXCEPT !.limit = JsNum(1)] >>),
     ReqMsg("q", << [NoFilter EXCEPT !.kinds = JsArr(<< 1 >>)],
                    [NoFilter EXCEPT !.authors = JsArr(<< "alice" >>), !.limit = JsNum(2)] >>),
     ReqMsg("q", << NullFilter >>) >>

\* the events clients publish before they ask
StoredFrames == << EventMsg(Note), EventMsg(NoteOf("bob", 9)), EventMsg(ReqEth) >>

InitReq ==
  /\ env = DefaultEnv
  /\ now = T0
  /\ ipLimiter = << >>
  /\ allowLog = << >>
  /\ Quiet

NextReq ==
  \/ Connect("c1")
  \/ \E k \in DOMAIN StoredFrames :
       Len(handlers) < MaxBackfill /\ Message("c1", StoredFrames[k])
  \/ \E k \in DOMAIN ReqFrames :
       Len(handlers) < MaxBackfill /\ Message("c1", ReqFrames[k])
  \/ \E i \in DOMAIN handlers : EventResume(i)
  \/ \E i \in DOMAIN handlers : SignResume(i)

SpecReq == InitReq /\ [][NextReq]_vars

-----------------------------------------------------------------------------
(* The size check: frames around MAX_EVENT_BYTES, ASCII and multi-byte *)

\* a note whose content is padded with the given characters
PaddedNote(padding) == clientEvent("alice", 8, 1, << >>, NotJson(padding))

\* an EVENT frame of the given payload length in bytes and in UTF-16 code
\* units: every code unit takes at least one byte in UTF-8
SizedMsg(padding, bytes, chars) ==
  [EventMsg(PaddedNote(padding)) EXCEPT !.bytes = bytes, !.chars = chars]

\* at the limit and one byte over it in ASCII; over the limit in bytes with
\* two-byte and with three-byte characters
SizedFrames ==
  << EventMsg(Note),
     SizedMsg("aaa", MAX_EVENT_BYTES, MAX_EVENT_BYTES),
     SizedMsg("aaaa", MAX_EVENT_BYTES + 1, MAX_EVENT_BYTES + 1),
     SizedMsg("aa\\u00e9", MAX_EVENT_BYTES + 1, MAX_EVENT_BYTES),
     SizedMsg("\\u20ac\\u20ac", 3 * MAX_EVENT_BYTES - 300, MAX_EVENT_BYTES - 100) >>

InitSize ==
  /\ env = DefaultEnv
  /\ now = T0
  /\ ipLimiter = << >>
  /\ allowLog = << >>
  /\ Quiet

NextSize ==
  \/ Connect("c1")
  \/ \E k \in DOMAIN SizedFrames :
       Len(handlers) < MaxSized /\ Message("c1", SizedFrames[k])
  \/ \E i \in DOMAIN handlers : EventResume(i)

SpecSize == InitSize /\ [][NextSize]_vars

-----------------------------------------------------------------------------
(* Two connections: a requester and a listener that comes and goes *)

\* what the requester sends, in this order: a request that is fetched, the
\* same request again while the cache may be fresh, a request that tolerates
\* no cache age, and then a request for an unsupported pair or a note
CastFrames ==
  << {EventMsg(ReqStandard)}, {EventMsg(ReqStandard)}, {EventMsg(ReqRepeated)},
     {EventMsg(ReqEth), EventMsg(Note)} >>

InitCast ==
  /\ env = DefaultEnv
  /\ now = T0
  /\ ipLimiter = << >>
  /\ allowLog = << >>
  /\ Quiet

NextCast ==
  \/ \E ws \in Conns : Connect(ws)
  \/ Disconnect("c2")
  \/ /\ Len(handlers) < MaxCast
     /\ \E msg \in CastFrames[Min(Len(handlers) + 1, Len(CastFrames))] :
          Message("c1", msg)
  \/ \E i \in DOMAIN handlers : EventResume(i)
  \/ \E i \in DOMAIN handlers : FetchesSettled(i)
  \/ \E i \in DOMAIN handlers : SignResume(i)

SpecCast == InitCast /\ [][NextCast]_vars

-----------------------------------------------------------------------------
(* Denials: small bursts, valid and invalid requests on two connections *)

\* what each connection sends: the same valid request and an invalid one,
\* and on the second connection a note of another key
DenyFrames ==
  [c \in Conns |-> IF c = "c1"
                     THEN {EventMsg(ReqStandard), EventMsg(ReqForged)}
                     ELSE {EventMsg(ReqStandard), EventMsg(ReqTampered),
                           EventMsg(NoteOf("bob", 9))}]

InitDeny ==
  /\ \E b \in 1..MaxBurst : env = [DefaultEnv EXCEPT !.RATE_BURST = b]
  /\ now = T0
  /\ ipLimiter = << >>
  /\ allowLog = << >>
  /\ Quiet

NextDeny ==
  \/ \E ws \in Conns : Connect(ws)
  \/ \E ws \in Conns : \E msg \in DenyFrames[ws] :
       Len(handlers) < MaxDenied /\ Message(ws, msg)
  \/ \E i \in DOMAIN handlers : EventResume(i)
  \/ \E i \in DOMAIN handlers : FetchesSettled(i)
  \/ \E i \in DOMAIN handlers : SignResume(i)

SpecDeny == InitDeny /\ [][NextDeny]_vars

-----------------------------------------------------------------------------
(* Bad input: frames of every kind on two connections *)

\* oversized, not JSON, not an array, of an unknown type, an event with a
\* forged signature and a REQ whose filter is null
BadFrames ==
  { SizedMsg("aaaa", MAX_EVENT_BYTES + 1, MAX_EVENT_BYTES + 1),
    [EventMsg(NoEvent) EXCEPT !.json = FALSE, !.isArray = FALSE, !.type = ""],
    [EventMsg(NoEvent) EXCEPT !.isArray = FALSE, !.type = ""],
    [EventMsg(NoEvent) EXCEPT !.type = "AUTH"],
    EventMsg(ReqForged),
    ReqMsg("q", << NullFilter >>) }

\* a note and a REQ for everything
GoodFrames == { EventMsg(Note), ReqMsg("q", << NoFilter >>) }

NextServe ==
  \/ \E ws \in Conns : running /\ Connect(ws)
  \/ \E ws \in Conns : \E msg \in BadFrames \cup GoodFrames :
       running /\ Len(handlers) < MaxServed /\ Message(ws, msg)
  \/ \E i \in DOMAIN handlers : running /\ EventResume(i)
  \/ \E i \in DOMAIN handlers : running /\ UnhandledRejection(i)

SpecServe == InitSize /\ [][NextServe]_vars

-----------------------------------------------------------------------------
(* Connections that close while their requests are in flight *)

NextClosing ==
  \/ \E ws \in Conns : Connect(ws)
  \/ \E ws \in Conns : Disconnect(ws)
  \/ \E ws \in Conns :
       Len(handlers) < MaxClosing /\ Message(ws, EventMsg(ReqStandard))
  \/ \E i \in DOMAIN handlers : EventResume(i)
  \/ \E i \in DOMAIN handlers : FetchesSettled(i)
  \/ \E i \in DOMAIN handlers : SignResume(i)

SpecClosing == InitCast /\ [][NextClosing]_vars

-----------------------------------------------------------------------------
(* matchFilter alone: any of a few events against any of a few filters *)

\* the values a list field takes: absent, empty, one entry, two entries
ListFields(a, b) == {JsUndef, JsArr(<< >>), JsArr(<< a >>), JsArr(<< a, b >>)}

\* the values since and until take: absent, zero, and times around the events
TimeFields == {JsUndef} \cup {JsNum(t) : t \in {0, 6, 8, 9, 10}}

\* notes of two keys and a price request, created at 8, 9 and 6
FilterEvents == {Note, NoteOf("bob", 9), ReqEth}

\* matchFilter(evt, f)
Match(evt, f) ==
  /\ ~probe.called
  /\ probe' = [args |-> << evt, f >>, called |-> TRUE, out |-> matchFilter(evt, f)]
  /\ UNCHANGED <<hook, env, now, events, priceCache, ipLimiter, pubLimiter, clients,
                 handlers, microtasks, fetchCalls, trace, allowLog>>

NextFilter ==
  \E evt \in FilterEvents :
    \E ids \in ListFields(Note.id, ReqEth.id), kinds \in ListFields(1, KIND_PRICE_REQ),
       authors \in ListFields("alice", "carol"), since \in TimeFields, until \in TimeFields :
      Match(evt, [NoFilter EXCEPT !.ids = ids, !.kinds = kinds, !.authors = authors,
                                  !.since = since, !.until = until])

SpecFilter == InitAgg /\ [][NextFilter]_vars

-----------------------------------------------------------------------------
(* fetchPrice alone: any source, any replies of the exchange *)

\* what an attempt can get: no body, a quote, and bodies whose price field is
\* zero, negative, null, missing or not numeric
FetchReplies ==
  { BadReply, GoodReply("coinbase", T0),
    [ok |-> TRUE, price |-> JsNum(0)], [ok |-> TRUE, price |-> JsNum(-1)],
    [ok |-> TRUE, price |-> JsNull], [ok |-> TRUE, price |-> JsUndef],
    [ok |-> TRUE, price |-> JsStr("n/a")] }

\* fetchPrice(source), with what each attempt gets
Fetch(source, replies) ==
  /\ ~probe.called
  /\ probe' = [args |-> << source, replies >>, called |-> TRUE,
               out |-> fetchPrice(source, now, replies)]
  /\ UNCHANGED <<hook, env, now, events, priceCache, ipLimiter, pubLimiter, clients,
                 handlers, microtasks, fetchCalls, trace, allowLog>>

NextFetch ==
  \E source \in Range(ALL_SOURCES) \cup {"binance"} :
    \E replies \in [1..(DefaultEnv.FETCH_RETRIES + 1) -> FetchReplies] :
      Fetch(source, replies)

SpecFetch == InitAgg /\ [][NextFetch]_vars

-----------------------------------------------------------------------------
(* Subscription tables: REQ and CLOSE on two connections that may close *)

\* REQ for two ids with two different filter lists, and CLOSE for both ids
SubFrames ==
  { ReqMsg(id, fs) : id \in {"q", "r"},
                     fs \in {<< NoFilter >>, << [NoFilter EXCEPT !.kinds = JsArr(<< 1 >>)] >>} }
    \cup { CloseMsg(id) : id \in {"q", "r"} }

NextSubs ==
  \/ \E ws \in Conns : Connect(ws)
  \/ \E ws \in Conns : Disconnect(ws)
  \/ \E ws \in Conns : \E msg \in SubFrames :
       Len(handlers) < MaxSubs /\ Message(ws, msg)

SpecSubs == InitSize /\ [][NextSubs]_vars

-----------------------------------------------------------------------------
(* A busy connection: c1 asks for a price while c2 sends other frames *)

\* what the second connection sends: a note, a REQ and a CLOSE
BusyFrames == { EventMsg(NoteOf("bob", 9)), ReqMsg("q", << NoFilter >>), CloseMsg("q") }

NextBusy ==
  \/ \E ws \in Conns : Connect(ws)
  \/ /\ \A i \in DOMAIN handlers : handlers[i].ws # "c1"
     /\ Len(handlers) < MaxBusy
     /\ Message("c1", EventMsg(ReqStandard))
  \/ \E msg \in BusyFrames : Len(handlers) < MaxBusy /\ Message("c2", msg)
  \/ \E i \in DOMAIN handlers : EventResume(i)
  \/ \E i \in DOMAIN handlers : FetchesSettled(i)
  \/ \E i \in DOMAIN handlers : SignResume(i)

SpecBusy == InitCast /\ [][NextBusy]_vars

-----------------------------------------------------------------------------
(* Frames that are no valid event, after a note that was accepted *)

\* in the order sent: a note, an event with a forged signature or a changed
\* field, an oversized or unparsable frame, a REQ, a CLOSE and again a note
QuietFrames ==
  << {EventMsg(Note)},
     {EventMsg(ReqForged), EventMsg(ReqTampered)},
     {SizedMsg("aaaa", MAX_EVENT_BYTES + 1, MAX_EVENT_BYTES + 1),
      [EventMsg(NoEvent) EXCEPT !.json = FALSE, !.isArray = FALSE, !.type = ""]},
     {ReqMsg("q", << NoFilter >>)},
     {CloseMsg("q")},
     {EventMsg(Note), EventMsg(ReqForged)} >>

NextQuiet ==
  \/ \E ws \in Conns : Connect(ws)
  \/ \E ws \in Conns :
       \E msg \in QuietFrames[Min(Len(handlers) + 1, Len(QuietFrames))] :
         Len(handlers) < MaxQuiet /\ Message(ws, msg)
  \/ \E i \in DOMAIN handlers : EventResume(i)

SpecQuiet == InitSize /\ [][NextQuiet]_vars

-----------------------------------------------------------------------------
(* The client hook from its mount to after its cleanup *)

NextHook ==
  \/ HookMount
  \/ \E k \in 1..MaxSockets : SocketOpen(k)
  \/ \E k \in 1..MaxSockets : SocketClose(k)
  \/ \E k \in 1..MaxSockets : TimerFires(k)
  \/ HookUnmount

SpecHook == InitSize /\ [][NextHook]_vars

-----------------------------------------------------------------------------
(* Properties of the price orchestration *)

\* invocation i is for a price request that was verified, admitted and stored
acceptedRequest(i) ==
  /\ handlers[i].type = "EVENT"
  /\ handlers[i].reason = "accepted"
  /\ handlers[i].evt.kind = KIND_PRICE_REQ

\* invocation i has returned or has ended on an exception
finished(i) == handlers[i].pc \in {"done", "thrown"}

\* invocation i went through the upstream fan-out and has resumed from it
fannedOut(i) ==
  /\ acceptedRequest(i)
  /\ handlers[i].sources # << >>
  /\ handlers[i].pc # "fetching"

\* the relay-signed events in the store that answer request id
terminalsInStore(id) ==
  { k \in DOMAIN events :
      /\ events[k].pubkey = RELAY_PUBKEY_HEX
      /\ events[k].kind \in {KIND_PRICE_RES, KIND_PRICE_ERR}
      /\ includes(events[k].tags, <<"e", id, "reply">>) }

\* C1: every accepted 38000 gets exactly one terminal event (38001 or 38002
\* tagged e=<request id>) by the time its handling has finished, and never
\* more than one, whatever its content and whatever the fetches do.
C1_ExactlyOneTerminal ==
  \A i \in DOMAIN handlers :
    acceptedRequest(i) =>
      /\ handlers[i].terminals <= 1
      /\ finished(i) =>
           /\ handlers[i].terminals = 1
           /\ terminalsInStore(handlers[i].evt.id) # {}

\* C2: while the cache holds no entry and the fetches of one admitted
\* request are pending, a second request does not launch a fan-out of its
\* own: at most one fan-out is in flight and fetchPrice has been called at
\* most once per source.
C2_SingleFanOut ==
  /\ ~priceCache.present =>
       Cardinality({ i \in DOMAIN handlers : handlers[i].pc = "fetching" }) <= 1
  /\ \A src \in DOMAIN fetchCalls :
       ~priceCache.present => fetchCalls[src] <= 1

\* C3: every 38001 that comes out of a fan-out is computed from samples of
\* at least MIN_QUORUM distinct sources.
C3_QuorumOfDistinctSources ==
  \A i \in DOMAIN handlers :
    (fannedOut(i) /\ handlers[i].signed.kind = KIND_PRICE_RES) =>
      Cardinality(Range(sampleSources(handlers[i].samples))) >= MIN_QUORUM

\* the values of the src tags of an event, in order
srcTagValues(e) == tagValues(e, "src")

noRepeats(s) == \A a, b \in DOMAIN s : a # b => s[a] # s[b]

\* C4: in every 38001 in the store, sources_used equals the src tag values,
\* both equal the sources of the samples used, and every entry is a
\* recognized source that appears once.
C4_SourcesUsedDistinct ==
  \A k \in DOMAIN events :
    events[k].kind = KIND_PRICE_RES =>
      LET body == events[k].content.body IN
      /\ body.sources_used = srcTagValues(events[k])
      /\ body.sources_used = sampleSources(body.samples)
      /\ \A j \in DOMAIN body.sources_used : includes(ALL_SOURCES, body.sources_used[j])
      /\ noRepeats(body.sources_used)

\* the request's maxAgeMs after clamping admits age: the default 20000 when
\* the field is missing, never when it is not a number
withinMaxAge(age, evt) ==
  LET m == safeJsonParse(evt.content).maxAgeMs IN
  IF m.t = "number" THEN age <= m.n /\ age <= MAX_REQUEST_MAXAGE_MS
  ELSE IF m.t = "undefined" THEN age <= 20000
  ELSE FALSE

\* C5: every 38001 with cache.hit = true has cache.ageMs <= CACHE_TTL_MS and
\* cache.ageMs <= the request's clamped maxAgeMs.
C5_CacheHitIsFresh ==
  /\ \A k \in DOMAIN events :
       (events[k].kind = KIND_PRICE_RES /\ events[k].content.body.cache.hit) =>
         events[k].content.body.cache.ageMs <= CACHE_TTL_MS
  /\ \A i \in DOMAIN handlers :
       (acceptedRequest(i) /\ handlers[i].signed.kind = KIND_PRICE_RES
          /\ handlers[i].signed.content.body.cache.hit) =>
         /\ handlers[i].signed.content.body.cache.ageMs <= CACHE_TTL_MS
         /\ withinMaxAge(handlers[i].signed.content.body.cache.ageMs, handlers[i].evt)

\* a response served from an entry that has aged, to a request with a finite
\* tolerance, has been stored
C5_Witness ==
  \E k \in DOMAIN events :
    /\ events[k].kind = KIND_PRICE_RES
    /\ events[k].content.body.cache.hit
    /\ events[k].content.body.cache.ageMs = CACHE_TTL_MS

\* C6: a fan-out in which fewer than MIN_QUORUM fetches succeed ends in one
\* 38002 "insufficient quorum" with need = MIN_QUORUM and got = the number of
\* successes and in no 38001; with quorum met, failed fetches are only left
\* out of the samples and the request ends in a 38001.
C6_QuorumFailure ==
  \A i \in DOMAIN handlers :
    fannedOut(i) =>
      LET h == handlers[i]
          body == h.signed.content.body
      IN  /\ h.pc \in {"signed", "done"}
          /\ IF h.succeeded < MIN_QUORUM
               THEN /\ h.signed.kind = KIND_PRICE_ERR
                    /\ body.error = "insufficient quorum"
                    /\ body.need = MIN_QUORUM
                    /\ body.got = h.succeeded
               ELSE /\ h.signed.kind = KIND_PRICE_RES
                    /\ Len(body.samples) = h.succeeded
          /\ h.pc = "done" => (h.terminals = 1 /\ includes(events, h.signed))

\* both outcomes have happened: a quorum failure with some successes, and a
\* response after a fan-out with a failed fetch
C6_Witness ==
  /\ \E i \in DOMAIN handlers :
       /\ fannedOut(i) /\ handlers[i].pc = "done"
       /\ handlers[i].succeeded > 0 /\ handlers[i].succeeded < MIN_QUORUM
       /\ handlers[i].signed.kind = KIND_PRICE_ERR
  /\ \E i \in DOMAIN handlers :
       /\ fannedOut(i) /\ handlers[i].pc = "done"
       /\ handlers[i].succeeded >= MIN_QUORUM
       /\ handlers[i].succeeded < Len(handlers[i].sources)
       /\ handlers[i].signed.kind = KIND_PRICE_RES

-----------------------------------------------------------------------------
(* Properties of the rate limiter *)

\* the calls i..j of the log that concern key and returned true
admittedIn(key, i, j) ==
  { k \in i..j : allowLog[k].key = key /\ allowLog[k].admit }

\* C7: for any key and any window of the clock, the allow(key) calls inside
\* the window that return true number at most burst + rps * W, W being the
\* length of the window in seconds (both sides in thousandths).
C7_TokenBucketBound ==
  \A i, j \in DOMAIN allowLog :
    (i <= j /\ allowLog[i].key = allowLog[j].key) =>
      1000 * Cardinality(admittedIn(allowLog[i].key, i, j))
        <= 1000 * RATE_BURST + RATE_IP_RPS * (allowLog[j].at - allowLog[i].at)

\* a window of positive length that admits exactly burst + rps * W calls of
\* one key, in a run in which that key was also refused
C7_Witness ==
  \E i, j \in DOMAIN allowLog :
    /\ i < j /\ allowLog[i].key = allowLog[j].key
    /\ allowLog[j].at > allowLog[i].at
    /\ 1000 * Cardinality(admittedIn(allowLog[i].key, i, j))
         = 1000 * RATE_BURST + RATE_IP_RPS * (allowLog[j].at - allowLog[i].at)
    /\ \E k \in DOMAIN allowLog :
         allowLog[k].key = allowLog[i].key /\ ~allowLog[k].admit

-----------------------------------------------------------------------------
(* Properties of the admission *)

\* the OK frames sent to connection ws, in order
okFrames(ws) ==
  LET out == clients[ws].out IN
  filterSeq(out, [i \in DOMAIN out |-> out[i].type = "OK"])

\* C8: while no time has elapsed since the first event of one IP arrived on
\* fresh buckets, the k-th event gets OK true when k <= RATE_BURST and OK
\* false with reason "rate limited (ip)" when k > RATE_BURST.
C8_BurstThenDenied ==
  now = T0 =>
    \A k \in DOMAIN okFrames("c1") :
      /\ okFrames("c1")[k].id = handlers[k].evt.id
      /\ IF k <= RATE_BURST
           THEN okFrames("c1")[k].ok /\ okFrames("c1")[k].text = "accepted"
           ELSE ~okFrames("c1")[k].ok /\ okFrames("c1")[k].text = "rate limited (ip)"

\* RATE_BURST = 10 and fifteen events answered at once: ten accepted, five
\* refused for the IP
C8_Witness ==
  /\ now = T0
  /\ RATE_BURST = 10
  /\ Len(okFrames("c1")) = 15
  /\ Cardinality({k \in DOMAIN okFrames("c1") : okFrames("c1")[k].ok}) = 10
  /\ Cardinality({k \in DOMAIN okFrames("c1") :
                    okFrames("c1")[k].text = "rate limited (ip)"}) = 5

-----------------------------------------------------------------------------
(* Properties of the store *)

\* the last n entries of s
lastOf(s, n) == SubSeq(s, Len(s) - n + 1, Len(s))

\* C9: the store never holds more than MAX_STORED_EVENTS events, and it is
\* always the most recent Min(MAX_STORED_EVENTS, number stored) events in
\* arrival order, client events and relay-signed events alike; so it holds
\* exactly MAX_STORED_EVENTS once more than that have been stored.
C9_StoreKeepsMostRecent ==
  /\ Len(events) <= MAX_STORED_EVENTS
  /\ events = lastOf(trace, Min(MAX_STORED_EVENTS, Len(trace)))
  /\ Len(trace) > MAX_STORED_EVENTS => Len(events) = MAX_STORED_EVENTS

\* the store has overflowed by more than one event and holds a client event
\* and a relay-signed event
C9_Witness ==
  /\ Len(trace) > MAX_STORED_EVENTS + 1
  /\ \E k \in DOMAIN events : events[k].pubkey = RELAY_PUBKEY_HEX
  /\ \E k \in DOMAIN events : events[k].pubkey # RELAY_PUBKEY_HEX
  /\ \E k \in DOMAIN trace : ~includes(events, trace[k])

\* C10: a query with the single filter {ids: [E.id]}, made when E is the
\* event stored last, returns E once and nothing else.
C10_QueryByIdReturnsExactlyE ==
  \A i \in DOMAIN handlers :
    LET h == handlers[i] IN
    (h.type = "REQ" /\ h.latest # NoEvent /\ h.filters = << idsFilter(h.latest.id) >>) =>
      h.found = << h.latest >>

-----------------------------------------------------------------------------
(* Properties of the aggregation and of the cache *)

\* position of the first frame of out that satisfies the test, 0 if none
firstFrame(out, test(_)) ==
  IF \E k \in DOMAIN out : test(out[k])
    THEN CHOOSE k \in DOMAIN out : test(out[k]) /\ \A j \in 1..(k - 1) : ~test(out[j])
    ELSE 0

\* invocation i is the client's standard request, all four upstreams
\* answered, and they quoted 60000, 60010, 60020 and 61000
happyPath(i) ==
  /\ fannedOut(i)
  /\ handlers[i].evt = ReqStandard
  /\ sampleValues(handlers[i].samples) = <<60000, 60010, 60020, 61000>>

\* the requester of invocation i got OK true and, once the invocation is
\* done, the signed event after it
okThenSigned(i) ==
  LET h == handlers[i]
      out == clients[h.ws].out
      isOk(f) == f = OkFrame(h.evt.id, TRUE, "accepted")
      isReply(f) == f = EventFrame(h.signed)
  IN  /\ firstFrame(out, isOk) > 0
      /\ h.pc = "done" => firstFrame(out, isReply) > firstFrame(out, isOk)

\* C11 as stated: on the happy path the relay sends OK true and then a 38001
\* with value 60015, method "trimmed_mean", sources_used the two middle
\* sources and cache.hit false.
C11_HappyPathTrimmedMean ==
  \A i \in DOMAIN handlers :
    happyPath(i) =>
      LET body == handlers[i].signed.content.body IN
      /\ okThenSigned(i)
      /\ handlers[i].signed.kind = KIND_PRICE_RES
      /\ body.value.num = 60015 * body.value.den
      /\ body.method = "trimmed_mean"
      /\ body.sources_used = <<"kraken", "coingecko">>
      /\ ~body.cache.hit

\* C11 amended: on the happy path the relay sends OK true and then a 38001
\* with value 60015, method "median", sources_used all four sources in the
\* order requested and cache.hit false.
C11_HappyPathMedian ==
  \A i \in DOMAIN handlers :
    happyPath(i) =>
      LET body == handlers[i].signed.content.body IN
      /\ okThenSigned(i)
      /\ handlers[i].signed.kind = KIND_PRICE_RES
      /\ body.value.num = 60015 * body.value.den
      /\ body.method = "median"
      /\ body.sources_used = ALL_SOURCES
      /\ body.samples = handlers[i].samples
      /\ ~body.cache.hit /\ body.cache.ageMs = 0

\* the happy path has run to its end and its response is in the store
C11_Witness ==
  \E i \in DOMAIN handlers :
    /\ happyPath(i)
    /\ handlers[i].pc = "done"
    /\ includes(events, handlers[i].signed)

\* the k-th smallest of a list of numbers
orderStat(values, k) ==
  CHOOSE x \in Range(values) :
    /\ Cardinality({i \in DOMAIN values : values[i] < x}) < k
    /\ k <= Cardinality({i \in DOMAIN values : values[i] <= x})

\* aggregate was called with n >= 1 samples
aggregated == probe.called /\ Len(probe.args) >= 1

\* C12: the effective method depends only on (method, n): trimmed_mean iff
\* method is trimmed_mean and n >= 5; otherwise median iff n >= 3, the value
\* being the middle value or the mean of the two middle values; otherwise
\* mean; in the last two cases the samples used are the whole input.
C12_MethodLadder ==
  aggregated =>
    LET samples == probe.args
        method == probe.out[1]
        r == probe.out[2]
        n == Len(samples)
        values == sampleValues(samples)
    IN  /\ ~r.thrown
        /\ r.method = (IF method = "trimmed_mean" /\ n >= 5 THEN "trimmed_mean"
                        ELSE IF n >= 3 THEN "median" ELSE "mean")
        /\ r.method = "median" =>
             /\ r.used = samples
             /\ IF n % 2 = 1
                  THEN r.value.num = orderStat(values, (n + 1) \div 2) * r.value.den
                  ELSE 2 * r.value.num =
                         (orderStat(values, n \div 2) + orderStat(values, n \div 2 + 1))
                           * r.value.den
        /\ r.method = "mean" =>
             /\ r.used = samples
             /\ r.value.num * n = Sum(values) * r.value.den

\* four samples with trimmed_mean came out as the median of an even count
\* whose two middle values differ
C12_Witness ==
  /\ aggregated
  /\ Len(probe.args) = 4
  /\ probe.out[1] = "trimmed_mean"
  /\ probe.out[2].method = "median"
  /\ orderStat(sampleValues(probe.args), 2) # orderStat(sampleValues(probe.args), 3)

\* a list as a bag
bagOf(s) == [x \in Range(s) |-> Cardinality({i \in DOMAIN s : s[i] = x})]

\* s without its entries at positions a and b
without(s, a, b) ==
  filterSeq(s, [i \in DOMAIN s |-> i # a /\ i # b])

\* C13: with method trimmed_mean and at least 5 samples, the effective
\* method is trimmed_mean, the samples used are the input minus two samples,
\* one of minimum value and one of maximum value, and the value is the
\* arithmetic mean of the samples used.
C13_TrimmedMean ==
  (aggregated /\ probe.out[1] = "trimmed_mean" /\ Len(probe.args) >= 5) =>
    LET samples == probe.args
        r == probe.out[2]
        values == sampleValues(samples)
    IN  /\ r.method = "trimmed_mean"
        /\ Len(r.used) = Len(samples) - 2
        /\ \E a, b \in DOMAIN samples :
             /\ a # b
             /\ \A i \in DOMAIN values : values[a] <= values[i] /\ values[i] <= values[b]
             /\ bagOf(r.used) = bagOf(without(samples, a, b))
        /\ r.value.num * Len(r.used) = Sum(sampleValues(r.used)) * r.value.den

\* trimmed_mean over five or more samples that were not in order of value
\* and whose extremes differ
C13_Witness ==
  /\ aggregated /\ probe.out[1] = "trimmed_mean" /\ Len(probe.args) >= 5
  /\ probe.out[2].method = "trimmed_mean"
  /\ probe.args[1].value > probe.args[Len(probe.args)].value
  /\ \E i \in DOMAIN probe.args : probe.args[i].value < probe.args[1].value

\* the cache entry is fresh for the request evt: its age is at most
\* CACHE_TTL_MS and at most the request's clamped maxAgeMs
freshFor(evt) ==
  /\ priceCache.present
  /\ now - priceCache.tsMs <= CACHE_TTL_MS
  /\ withinMaxAge(now - priceCache.tsMs, evt)

\* invocation j produced the response whose fan-out filled the cache entry
filledCache(j) ==
  /\ fannedOut(j)
  /\ handlers[j].signed.kind = KIND_PRICE_RES
  /\ handlers[j].samples = priceCache.samples
  /\ handlers[j].startedAt <= priceCache.tsMs

\* the step in which invocation i resumes after verification and is accepted
acceptedStep(i) ==
  /\ i \in DOMAIN handlers
  /\ handlers[i].pc = "verified"
  /\ handlers'[i].pc # "verified"
  /\ handlers'[i].reason = "accepted"

\* C14: a BTC-USD request that is accepted while the cache entry is fresh for
\* it is answered with a 38001 with cache.hit true and the entry's age, no
\* fetchPrice call is made for it, the cache is left as it is, and its value
\* is the value of the response that filled the cache when both asked for
\* the same method.
C14_FreshCacheIsServed ==
  [][\A i \in DOMAIN handlers :
       (/\ acceptedStep(i)
        /\ handlers[i].evt.kind = KIND_PRICE_REQ
        /\ requestPair(handlers[i].evt) = JsStr("BTC-USD")
        /\ freshFor(handlers[i].evt)) =>
         LET h == handlers'[i]
             body == h.signed.content.body
         IN  /\ h.pc = "signed"
             /\ h.signed.kind = KIND_PRICE_RES
             /\ body.cache.hit
             /\ body.cache.ageMs = now - priceCache.tsMs
             /\ fetchCalls' = fetchCalls
             /\ priceCache' = priceCache
             /\ \A j \in DOMAIN handlers :
                  (filledCache(j) /\ handlers[j].method = requestMethod(handlers[i].evt)) =>
                    body.value = handlers[j].signed.content.body.value]_vars

\* a request was served from an entry that had aged, with the value of the
\* response that filled the cache
C14_Witness ==
  \E i, j \in DOMAIN handlers :
    /\ i # j
    /\ handlers[i].hit /\ handlers[i].pc = "done"
    /\ handlers[i].signed.content.body.cache.ageMs > 0
    /\ filledCache(j)
    /\ handlers[j].method = handlers[i].method
    /\ handlers[i].signed.content.body.value = handlers[j].signed.content.body.value
    /\ fetchCalls = [s \in Range(ALL_SOURCES) |-> 1]

\* the request evt carries maxAgeMs = 0
zeroMaxAge(evt) == safeJsonParse(evt.content).maxAgeMs = JsNum(0)

\* C15: a BTC-USD request with maxAgeMs = 0 that is accepted while the cache
\* entry is 1 ms old or older starts a fan-out of its own, and no response
\* to a request with maxAgeMs = 0 is served from an entry of age 1 ms or
\* more: a response after its fan-out has cache.hit false.
C15_ZeroMaxAgeBypassesCache ==
  /\ [][\A i \in DOMAIN handlers :
          (/\ acceptedStep(i)
           /\ handlers[i].evt.kind = KIND_PRICE_REQ
           /\ requestPair(handlers[i].evt) = JsStr("BTC-USD")
           /\ zeroMaxAge(handlers[i].evt)
           /\ priceCache.present /\ now - priceCache.tsMs >= 1) =>
            /\ handlers'[i].pc = "fetching"
            /\ ~handlers'[i].hit
            /\ \E src \in DOMAIN fetchCalls : fetchCalls'[src] > fetchCalls[src]]_vars
  /\ [](\A i \in DOMAIN handlers :
          (acceptedRequest(i) /\ zeroMaxAge(handlers[i].evt)
             /\ handlers[i].signed.kind = KIND_PRICE_RES) =>
            LET cache == handlers[i].signed.content.body.cache IN
            /\ cache.hit => cache.ageMs = 0
            /\ fannedOut(i) => ~cache.hit)

\* a request with maxAgeMs = 0 that started after an earlier response had
\* filled the cache has gone through its own fan-out and has been answered
C15_Witness ==
  \E i, j \in DOMAIN handlers :
    /\ i # j
    /\ fannedOut(j) /\ handlers[j].signed.kind = KIND_PRICE_RES
    /\ acceptedRequest(i) /\ zeroMaxAge(handlers[i].evt)
    /\ fannedOut(i)
    /\ handlers[i].startedAt > handlers[j].signed.content.body.ts
    /\ handlers[i].signed.kind = KIND_PRICE_RES
    /\ ~handlers[i].signed.content.body.cache.hit
    /\ handlers[i].pc = "done"

\* C16: an accepted 38000 whose pair is not "BTC-USD" gets, by the time its
\* handling has finished, exactly one 38002 with error "unsupported pair"
\* and the tags e, p, t = price-error and pair, and nothing else is done for
\* it: no cache hit, no fan-out.
C16_UnsupportedPair ==
  \A i \in DOMAIN handlers :
    (acceptedRequest(i) /\ requestPair(handlers[i].evt) # JsStr("BTC-USD")) =>
      LET h == handlers[i]
          pair == requestPair(h.evt)
      IN  /\ ~h.hit /\ h.sources = << >> /\ h.startedAt = 0 /\ h.pc # "fetching"
          /\ finished(i) =>
               /\ h.terminals = 1
               /\ h.signed.kind = KIND_PRICE_ERR
               /\ h.signed.pubkey = RELAY_PUBKEY_HEX
               /\ h.signed.content.body = [error |-> "unsupported pair", pair |-> pair]
               /\ h.signed.tags =
                    << <<"e", h.evt.id, "reply">>, <<"p", h.evt.pubkey>>,
                       <<"t", "price-error">>, <<"pair", tagElem(pair)>> >>
               /\ includes(events, h.signed)

-----------------------------------------------------------------------------
(* Properties of subscriptions, frames and broadcast *)

\* the first n entries of s, all of s when it is shorter
firstOf(s, n) == SubSeq(s, 1, Min(n, Len(s)))

\* s from its last entry to its first
reversed(s) == [i \in DOMAIN s |-> s[Len(s) + 1 - i]]

\* min(limit ?? 200, 2000) as a count: nothing for a limit that is no number
limitOf(f) ==
  LET l == MathMin(Number(Coalesce(f.limit, JsNum(200))), 2000) IN
  IF l.nan \/ l.n < 0 THEN 0 ELSE l.n

\* the stored events filter f matches, newest first, at most its limit
backfillOf(evs, f) ==
  IF f.isNull THEN << >>
  ELSE firstOf(reversed(filterSeq(evs, [i \in DOMAIN evs |-> matchFilter(evs[i], f).match])),
               limitOf(f))

\* the same for a list of filters, filter after filter
RECURSIVE backfill(_, _)
backfill(evs, filters) ==
  IF filters = << >> THEN << >>
  ELSE backfillOf(evs, filters[1]) \o backfill(evs, Tail(filters))

\* the step in which a REQ frame is handled
reqStep ==
  /\ Len(handlers') = Len(handlers) + 1
  /\ handlers'[Len(handlers')].type = "REQ"

\* C17: for every REQ frame the relay sends the matching stored events as
\* ["EVENT", sub_id, e] frames, newest first and at most min(limit ?? 200,
\* 2000) per filter, filter after filter, and then exactly one
\* ["EOSE", sub_id], whatever the number of filters.
C17_BackfillThenEose ==
  [][reqStep =>
       LET h == handlers'[Len(handlers')]
           old == clients[h.ws].out
           new == SubSeq(clients'[h.ws].out, Len(old) + 1, Len(clients'[h.ws].out))
           want == backfill(events, h.filters)
       IN  /\ Len(new) = Len(want) + 1
           /\ new[Len(new)].type = "EOSE"
           /\ new[Len(new)].sub \in DOMAIN clients'[h.ws].subs
           /\ clients'[h.ws].subs[new[Len(new)].sub] = h.filters
           /\ \A k \in DOMAIN want : new[k] = SubEventFrame(new[Len(new)].sub, want[k])]_vars

\* the step in which a frame arrives
frameStep == Len(handlers') = Len(handlers) + 1

\* C18: a frame of exactly MAX_EVENT_BYTES bytes is processed normally, and
\* a frame of more than MAX_EVENT_BYTES bytes, whatever its characters, is
\* answered with ["NOTICE", "payload too large"] and has no other effect.
C18_SizeLimitInBytes ==
  [][frameStep =>
       LET h == handlers'[Len(handlers')] IN
       /\ h.bytes = MAX_EVENT_BYTES =>
            (h.type = "EVENT" /\ h.pc = "verified" /\ clients' = clients)
       /\ h.bytes > MAX_EVENT_BYTES =>
            /\ h.type = "oversize"
            /\ clients' = send(clients, h.ws, NoticeFrame("payload too large"))
            /\ microtasks' = microtasks
            /\ events' = events]_vars

\* the connections that are open
openConns == { c \in Conns : clients[c].state = "open" }

\* the frames connection c is sent in the step
sentTo(c) == SubSeq(clients'[c].out, Len(clients[c].out) + 1, Len(clients'[c].out))

\* the step in which the relay accepts a client's event or emits one it signed
emitStep == Len(trace') = Len(trace) + 1

\* C19: every event the relay accepts from a client, and every relay-signed
\* event, is sent to all the connections that are open at that moment.
C19_AcceptedEventsAreBroadcast ==
  [][emitStep =>
       \A c \in openConns :
         includes(sentTo(c), EventFrame(trace'[Len(trace')]))]_vars

\* the step in which invocation i broadcasts the event it signed
terminalStep(i) == handlers[i].pc = "signed" /\ handlers'[i].pc = "done"

\* the path invocation i has taken to its terminal event
pathOf(i) ==
  LET h == handlers[i] IN
  IF ~acceptedRequest(i) \/ h.pc # "done" THEN "none"
  ELSE IF h.hit THEN "cache-hit"
  ELSE IF h.sources = << >> THEN "unsupported-pair"
  ELSE IF h.signed.kind = KIND_PRICE_RES THEN "fresh-fetch"
  ELSE "quorum-error"

\* C20: for each accepted 38000 the ["OK", id, true, "accepted"] frame is
\* sent on the requester's connection before the terminal event of that
\* request is broadcast to any connection, on every path.
C20_OkBeforeTerminal ==
  /\ [][\A i \in DOMAIN handlers :
          (acceptedRequest(i) /\ terminalStep(i)) =>
            LET h == handlers[i] IN
            /\ includes(clients[h.ws].out, OkFrame(h.evt.id, TRUE, "accepted"))
            /\ \A c \in Conns :
                 clients'[c].out = IF c \in openConns
                                     THEN Append(clients[c].out, EventFrame(h.signed))
                                     ELSE clients[c].out]_vars
  /\ [](\A i \in DOMAIN handlers :
          acceptedRequest(i) =>
            LET h == handlers[i]
                out == clients[h.ws].out
                isOk(f) == f = OkFrame(h.evt.id, TRUE, "accepted")
                isReply(f) == f = EventFrame(h.signed)
            IN  /\ firstFrame(out, isOk) > 0
                /\ firstFrame(out, isReply) \in {0} \cup
                     ((firstFrame(out, isOk) + 1)..Len(out)))

\* all four paths have been taken and the listener was sent a terminal event
C20_Witness ==
  /\ \A p \in {"cache-hit", "fresh-fetch", "quorum-error", "unsupported-pair"} :
       \E i \in DOMAIN handlers : pathOf(i) = p
  /\ \E i \in DOMAIN handlers :
       /\ pathOf(i) # "none"
       /\ includes(clients["c2"].out, EventFrame(handlers[i].signed))

-----------------------------------------------------------------------------
(* Properties of verification, admission and error handling *)

\* the step in which invocation i resumes after verifyEvent
resumeStep(i) == handlers[i].pc = "verified" /\ handlers'[i].pc # "verified"

\* invocation i was for an EVENT that was refused
refused(i) ==
  /\ handlers[i].type = "EVENT"
  /\ handlers[i].pc # "verified"
  /\ handlers[i].reason # "accepted"

\* the text of the OK false frame for a refusal
refusalText(reason) == IF reason = "invalid" THEN "invalid: bad sig or id" ELSE reason

\* C21: an EVENT that fails verification or is denied by a rate limiter is
\* answered with OK false and discarded: the store and the cache are
\* unchanged, nothing is broadcast, no fetch is started and no terminal event
\* is emitted for it, whatever its kind.
C21_RefusedEventsAreDiscarded ==
  /\ [][\A i \in DOMAIN handlers :
          (resumeStep(i) /\ handlers'[i].reason # "accepted") =>
            LET h == handlers[i] IN
            /\ clients' = send(clients, h.ws,
                               OkFrame(h.evt.id, FALSE, refusalText(handlers'[i].reason)))
            /\ events' = events /\ trace' = trace
            /\ priceCache' = priceCache
            /\ fetchCalls' = fetchCalls
            /\ microtasks' = Tail(microtasks)]_vars
  /\ [](\A i \in DOMAIN handlers :
          /\ (handlers[i].type = "EVENT" /\ handlers[i].pc # "verified"
                /\ ~nostrVerifyEvent(handlers[i].evt)) => handlers[i].reason = "invalid"
          /\ refused(i) =>
               /\ handlers[i].pc = "done"
               /\ handlers[i].sources = << >>
               /\ handlers[i].signed = NoEvent
               /\ handlers[i].terminals = 0)

\* price requests were refused for each of the three reasons
C21_Witness ==
  \A r \in {"invalid", "rate limited (ip)", "rate limited (pubkey)"} :
    \E i \in DOMAIN handlers :
      refused(i) /\ handlers[i].reason = r /\ handlers[i].evt.kind = KIND_PRICE_REQ

\* the frame that has just arrived is handled as a valid frame of its type
\* is: a REQ with well-formed filters ends with EOSE, an EVENT is verified
normalReply ==
  LET h == handlers'[Len(handlers')]
      sent == sentTo(h.ws)
  IN  /\ (h.type = "REQ" /\ \A k \in DOMAIN h.filters : ~h.filters[k].isNull) =>
           /\ sent # << >>
           /\ sent[Len(sent)] = EoseFrame("q")
      /\ h.type = "EVENT" => h.pc = "verified"

\* C22: the relay never closes a connection and never stops serving it
\* because of input: after any frame the connection stays open and later
\* valid frames, on it and on other connections, get their normal replies.
C22_BadInputNeverClosesAConnection ==
  /\ [](\A c \in Conns : clients[c].state # "closed")
  /\ [][frameStep => normalReply]_vars
  /\ [][\A i \in DOMAIN handlers :
          (resumeStep(i) /\ nostrVerifyEvent(handlers[i].evt)) =>
            \E r \in {"accepted", "rate limited (ip)", "rate limited (pubkey)"} :
              sentTo(handlers[i].ws) =
                << OkFrame(handlers[i].evt.id, r = "accepted", r) >>]_vars

\* the requester of invocation i has closed its connection
requesterGone(i) == clients[handlers[i].ws].state = "closed"

\* C23: if the requesting connection closes while the fetches of its request
\* are pending, the orchestration is not cancelled: when the fetches settle
\* the terminal event is signed, added to the store and broadcast to the
\* connections that are still open.
C23_CloseDoesNotCancel ==
  /\ [][\A i \in DOMAIN handlers :
          (requesterGone(i) /\ handlers[i].pc = "fetching"
             /\ handlers'[i].pc # "fetching") =>
            /\ handlers'[i].pc = "signed"
            /\ handlers'[i].signed.kind \in {KIND_PRICE_RES, KIND_PRICE_ERR}
            /\ getTag(handlers'[i].signed, "e") = JsStr(handlers[i].evt.id)
            /\ microtasks' = << i >>]_vars
  /\ [][\A i \in DOMAIN handlers :
          (requesterGone(i) /\ terminalStep(i)) =>
            /\ events' = storeEvent(events, handlers[i].signed)
            /\ \A c \in Conns :
                 sentTo(c) = IF c \in openConns
                               THEN << EventFrame(handlers[i].signed) >> ELSE << >>]_vars
  /\ [](\A i \in DOMAIN handlers :
          (acceptedRequest(i) /\ handlers[i].pc = "done") => handlers[i].terminals = 1)

\* the requester left during the fetches and the other connection was sent
\* the response, which is in the store
C23_Witness ==
  \E i \in DOMAIN handlers :
    /\ requesterGone(i)
    /\ fannedOut(i) /\ handlers[i].pc = "done"
    /\ handlers[i].signed.kind = KIND_PRICE_RES
    /\ includes(events, handlers[i].signed)
    /\ ~includes(clients[handlers[i].ws].out, EventFrame(handlers[i].signed))
    /\ \E c \in openConns : includes(clients[c].out, EventFrame(handlers[i].signed))

\* what the IP limiter and the pubkey limiter would answer for invocation i
ipAdmits(i) ==
  allow(ipLimiter, "ip:" \o clients[handlers[i].ws].ip, now, RATE_IP_RPS, RATE_BURST).admit
pubAdmits(i) ==
  allow(pubLimiter, "pub:" \o handlers[i].evt.pubkey, now, RATE_PUBKEY_RPS, RATE_BURST).admit

\* C24: admission asks the IP bucket first and short-circuits: when it denies
\* the reason is "rate limited (ip)" and the pubkey buckets are unchanged;
\* "rate limited (pubkey)" is given only when the IP bucket admitted and the
\* pubkey bucket denied; an event is stored only when both admitted it.
C24_IpFirstShortCircuit ==
  [][\A i \in DOMAIN handlers :
       (resumeStep(i) /\ handlers[i].ok) =>
         LET reason == handlers'[i].reason IN
         /\ ~ipAdmits(i) => (reason = "rate limited (ip)" /\ pubLimiter' = pubLimiter)
         /\ reason = "rate limited (pubkey)" <=> (ipAdmits(i) /\ ~pubAdmits(i))
         /\ reason = "accepted" <=> (ipAdmits(i) /\ pubAdmits(i))
         /\ trace' # trace => reason = "accepted"
         /\ events' # events => reason = "accepted"]_vars

\* an event was refused for its IP while its pubkey had never been seen, and
\* another for its pubkey
C24_Witness ==
  /\ \E i \in DOMAIN handlers :
       /\ refused(i) /\ handlers[i].reason = "rate limited (ip)"
       /\ "pub:" \o handlers[i].evt.pubkey \notin DOMAIN pubLimiter
  /\ \E i \in DOMAIN handlers :
       refused(i) /\ handlers[i].reason = "rate limited (pubkey)"

-----------------------------------------------------------------------------
(* Properties of the cache entry and of request parsing *)

\* C25: there is at most one cache entry, and the source values of the
\* samples inside it are pairwise distinct, after any sequence of requests
\* with any sources arrays.
C25_CacheSourcesDistinct ==
  /\ priceCache.present \in BOOLEAN
  /\ priceCache.present => noRepeats(sampleSources(priceCache.samples))

\* the content of evt names no pair: it is not JSON or has no pair field
noPairInContent(evt) == safeJsonParse(evt.content).pair = JsUndef

\* invocation i goes on to the cache and fetch steps
cacheOrFetch(i) ==
  \/ handlers'[i].pc = "fetching"
  \/ handlers'[i].hit /\ handlers'[i].pc \in {"signed", "thrown"}

\* C26 as stated: an accepted 38000 whose content has no pair field, or is
\* not valid JSON, is handled as pair "BTC-USD" and goes on to the cache and
\* fetch steps, whatever tags the event carries.
C26_MissingPairIsDefault ==
  [][\A i \in DOMAIN handlers :
       (acceptedStep(i) /\ handlers[i].evt.kind = KIND_PRICE_REQ
          /\ noPairInContent(handlers[i].evt)) =>
         /\ handlers'[i].pair = JsStr("BTC-USD")
         /\ cacheOrFetch(i)]_vars

\* C26 amended: an accepted 38000 whose content has no pair field, or is not
\* valid JSON, takes its pair from the first pair tag of the event that has
\* a value, and is handled as "BTC-USD" only when there is no such tag; it
\* goes on to the cache and fetch steps exactly when that pair is "BTC-USD",
\* and gets the unsupported pair error otherwise.
C26_MissingPairFromTagThenDefault ==
  [][\A i \in DOMAIN handlers :
       (acceptedStep(i) /\ handlers[i].evt.kind = KIND_PRICE_REQ
          /\ noPairInContent(handlers[i].evt)) =>
         LET given == tagValues(handlers[i].evt, "pair")
             named == filterSeq(given, [k \in DOMAIN given |-> given[k] # ""])
             pair == IF named = << >> THEN "BTC-USD" ELSE named[1]
         IN  /\ handlers'[i].pair = JsStr(pair)
             /\ cacheOrFetch(i) <=> pair = "BTC-USD"
             /\ pair # "BTC-USD" =>
                  /\ handlers'[i].pc = "signed"
                  /\ handlers'[i].signed.kind = KIND_PRICE_ERR
                  /\ handlers'[i].signed.content.body.error = "unsupported pair"]_vars

\* a request with no pair anywhere was fetched for, and one whose only pair
\* is an ETH-USD tag got the unsupported pair error
C26_Witness ==
  \E i, j \in DOMAIN handlers :
    /\ acceptedRequest(i) /\ handlers[i].evt = ReqBare
    /\ fannedOut(i) /\ handlers[i].pair = JsStr("BTC-USD")
    /\ acceptedRequest(j) /\ handlers[j].evt = ReqTagOnly
    /\ handlers[j].pc = "done" /\ handlers[j].signed.kind = KIND_PRICE_ERR
    /\ handlers[j].pair = JsStr("ETH-USD")

\* the maxAgeMs the claim gives a request: the requested number clamped to
\* MAX_REQUEST_MAXAGE_MS, or 20000 when there is none or it is not a number
statedMaxAgeMs(evt) ==
  LET given == safeJsonParse(evt.content).maxAgeMs IN
  Min(IF given.t = "number" THEN given.n ELSE 20000, MAX_REQUEST_MAXAGE_MS)

\* C27: the effective maxAgeMs of a request is min(requested,
\* MAX_REQUEST_MAXAGE_MS) when the content's maxAgeMs is a number and 20000
\* when it is missing or not a number; so a request with an invalid maxAgeMs
\* is served from a cache entry of age <= min(CACHE_TTL_MS, 20000).
C27_EffectiveMaxAge ==
  [][\A i \in DOMAIN handlers :
       (acceptedStep(i) /\ handlers[i].evt.kind = KIND_PRICE_REQ) =>
         /\ handlers'[i].maxAgeMs = [nan |-> FALSE, n |-> statedMaxAgeMs(handlers[i].evt)]
         /\ (/\ requestPair(handlers[i].evt) = JsStr("BTC-USD")
             /\ priceCache.present
             /\ now - priceCache.tsMs <= Min(CACHE_TTL_MS, statedMaxAgeMs(handlers[i].evt)))
              => handlers'[i].hit]_vars

-----------------------------------------------------------------------------
(* Properties of matchFilter *)

\* a list field that is absent or empty constrains nothing, and another
\* passes exactly its members
listPasses(xs, v) == xs.t # "array" \/ xs.a = << >> \/ includes(xs.a, v)

\* C28: in matchFilter an ids, kinds or authors field that is absent or is
\* an empty list constrains nothing, and a non-empty list passes exactly the
\* events whose id, kind or pubkey is a member of it.
C28_ListFieldsAreMembership ==
  (probe.called /\ probe.args[2].since = JsUndef /\ probe.args[2].until = JsUndef) =>
    LET evt == probe.args[1]
        f == probe.args[2]
    IN  /\ ~probe.out.thrown
        /\ probe.out.match <=> /\ listPasses(f.ids, evt.id)
                               /\ listPasses(f.kinds, evt.kind)
                               /\ listPasses(f.authors, evt.pubkey)

\* a time field that is absent constrains nothing
sinceOk(x, t) == x = JsUndef \/ t >= x.n
untilOk(x, t) == x = JsUndef \/ t <= x.n

\* C29: an event passes the time constraints of a filter iff (since is
\* absent or created_at >= since) and (until is absent or created_at <=
\* until), for every integer since and until, 0 included.
C29_TimeBoundsInclusive ==
  (/\ probe.called
   /\ probe.args[2].ids = JsUndef /\ probe.args[2].kinds = JsUndef
   /\ probe.args[2].authors = JsUndef) =>
    LET evt == probe.args[1]
        f == probe.args[2]
    IN  /\ ~probe.out.thrown
        /\ probe.out.match <=> /\ sinceOk(f.since, evt.created_at)
                               /\ untilOk(f.until, evt.created_at)

-----------------------------------------------------------------------------
(* Properties of fetchPrice *)

\* the price of a reply is a finite number strictly greater than zero
positivePrice(reply) == reply.ok /\ reply.price.t = "number" /\ reply.price.n > 0

\* C30: a fetch attempt whose parsed price is not a finite number strictly
\* greater than zero (zero, negative, NaN, missing or null) fails, so no
\* sample with value <= 0 comes out of fetchPrice.
C30_OnlyPositivePrices ==
  probe.called =>
    LET replies == probe.args[2]
        out == probe.out
    IN  out.fulfilled =>
          /\ out.value.value > 0
          /\ \E a \in DOMAIN replies :
               /\ positivePrice(replies[a])
               /\ out.value.value = replies[a].price.n
               /\ \A b \in 1..(a - 1) : ~positivePrice(replies[b])

-----------------------------------------------------------------------------
(* Properties of the subscription tables *)

\* the table of connection c after its first n frames: each REQ sets the
\* entry of its id, each CLOSE removes it
RECURSIVE tableAfter(_, _)
tableAfter(c, n) ==
  IF n = 0 THEN << >>
  ELSE LET h == handlers[n]
           t == tableAfter(c, n - 1)
       IN  IF h.ws # c THEN t
           ELSE IF h.type = "REQ"
             THEN [k \in DOMAIN t \cup {h.subId} |-> IF k = h.subId THEN h.filters ELSE t[k]]
           ELSE IF h.type = "CLOSE"
             THEN [k \in DOMAIN t \ {h.subId} |-> t[k]]
           ELSE t

\* C31: a connection's table contains sub_id exactly when the connection is
\* open and its latest REQ for sub_id has not been followed by CLOSE sub_id,
\* with the filters of that REQ; a closed socket has no subscription; frames
\* on one connection never change the table of another.
C31_SubscriptionTable ==
  \A c \in Conns :
    clients[c].subs = IF clients[c].state = "open"
                        THEN tableAfter(c, Len(handlers)) ELSE << >>

-----------------------------------------------------------------------------
(* Properties of the interleaving of invocations *)

\* the fetches of a request of connection c are pending before and after
\* the step
fetchesPending(c) ==
  \E a \in DOMAIN handlers :
    handlers[a].ws = c /\ handlers[a].pc = "fetching" /\ handlers'[a].pc = "fetching"

\* C32: while the fetches of a request from connection c1 are pending,
\* EVENT, REQ and CLOSE frames that arrive on c2 are processed and answered
\* without waiting for the fetches to settle.
C32_OtherConnectionIsServed ==
  /\ [][(fetchesPending("c1") /\ frameStep /\ handlers'[Len(handlers')].ws = "c2") =>
          LET h == handlers'[Len(handlers')] IN
          /\ h.type = "REQ" =>
               /\ sentTo("c2") # << >>
               /\ sentTo("c2")[Len(sentTo("c2"))] = EoseFrame(h.subId)
               /\ clients'["c2"].subs[h.subId] = h.filters
          /\ h.type = "CLOSE" => h.subId \notin DOMAIN clients'["c2"].subs
          /\ h.type = "EVENT" =>
               (h.pc = "verified" /\ includes(microtasks', Len(handlers')))]_vars
  /\ [][\A i \in DOMAIN handlers :
          (fetchesPending("c1") /\ resumeStep(i) /\ handlers[i].ws = "c2") =>
            sentTo("c2") = << OkFrame(handlers[i].evt.id, TRUE, "accepted") >>]_vars
  /\ [](\A i \in DOMAIN handlers :
          handlers[i].pc = "verified" => includes(microtasks, i))

\* the fetches of c1 are still pending and c2 has had its note accepted, its
\* REQ answered with that note and EOSE, and its CLOSE carried out
C32_Witness ==
  /\ \E a \in DOMAIN handlers : handlers[a].ws = "c1" /\ handlers[a].pc = "fetching"
  /\ \E a, i, j, k \in DOMAIN handlers :
       /\ a < i /\ i < j /\ j < k
       /\ handlers[a].ws = "c1"
       /\ handlers[i].type = "EVENT" /\ handlers[i].reason = "accepted"
       /\ handlers[j].type = "REQ" /\ handlers[k].type = "CLOSE"
  /\ includes(clients["c2"].out, OkFrame(NoteOf("bob", 9).id, TRUE, "accepted"))
  /\ includes(clients["c2"].out, SubEventFrame("q", NoteOf("bob", 9)))
  /\ includes(clients["c2"].out, EoseFrame("q"))
  /\ clients["c2"].subs = << >>


\* C33: when an EVENT frame is followed by a REQ frame on the same
\* connection, the event has been verified, admitted, stored and
\* acknowledged with OK before the backfill query of the REQ runs.
C33_EventBeforeReq ==
  [][reqStep =>
       LET h == handlers'[Len(handlers')] IN
       \A i \in DOMAIN handlers :
         (handlers[i].ws = h.ws /\ handlers[i].type = "EVENT") =>
           /\ handlers[i].pc # "verified"
           /\ handlers[i].reason = "accepted" =>
                /\ includes(events, handlers[i].evt)
                /\ includes(clients[h.ws].out, OkFrame(handlers[i].evt.id, TRUE, "accepted"))]_vars

\* the same for a REQ frame that arrives when no invocation is waiting
C33_EventBeforeReqOwnTask ==
  [][(reqStep /\ idle) =>
       LET h == handlers'[Len(handlers')] IN
       \A i \in DOMAIN handlers :
         (handlers[i].ws = h.ws /\ handlers[i].type = "EVENT") =>
           /\ handlers[i].pc # "verified"
           /\ handlers[i].reason = "accepted" =>
                /\ includes(events, handlers[i].evt)
                /\ includes(clients[h.ws].out, OkFrame(handlers[i].evt.id, TRUE, "accepted"))]_vars

-----------------------------------------------------------------------------
(* Properties of the price cache *)

\* the step in which the fan-out of invocation i settles
settleStep(i) == handlers[i].pc = "fetching" /\ handlers'[i].pc # "fetching"

\* C34: the price cache is written only by a fan-out that reached quorum:
\* every entry holds at least MIN_QUORUM samples, and unsupported-pair
\* requests, cache hits and quorum failures leave the entry unchanged.
C34_CacheWrittenOnQuorum ==
  /\ [](priceCache.present => Len(priceCache.samples) >= MIN_QUORUM)
  /\ [][priceCache' # priceCache =>
          \E i \in DOMAIN handlers :
            /\ settleStep(i)
            /\ Len(handlers'[i].samples) >= MIN_QUORUM
            /\ priceCache' = [present |-> TRUE, tsMs |-> now, samples |-> handlers'[i].samples]]_vars
  /\ [][\A i \in DOMAIN handlers :
          (handlers'[i] # handlers[i] /\ acceptedRequest(i)
             /\ (handlers'[i].hit \/ handlers'[i].sources = << >>
                   \/ Len(handlers'[i].samples) < MIN_QUORUM)) =>
            priceCache' = priceCache]_vars

\* a fan-out has filled the cache and a later fan-out that missed quorum has
\* been answered; the entry is still the one the first fan-out wrote
C34_Witness ==
  \E i, j \in DOMAIN handlers :
    /\ i < j
    /\ pathOf(i) = "fresh-fetch" /\ pathOf(j) = "quorum-error"
    /\ handlers[j].startedAt > handlers[i].startedAt
    /\ handlers[j].samples # << >>
    /\ priceCache.present /\ priceCache.samples = handlers[i].samples


\* the time at which the fan-out that produced a cache entry started: the ts
\* its fetchPrice calls put into the samples
startOf(entry) == entry.samples[1].ts

\* the invocations whose fetches are pending
pendingFanOuts == {i \in DOMAIN handlers : handlers[i].pc = "fetching"}

\* C35: the cache entry is never replaced by the samples of a fan-out that
\* started earlier than the fan-out that produced the current entry.
C35_NoStaleOverwrite ==
  [][(priceCache.present /\ priceCache' # priceCache) =>
       startOf(priceCache') >= startOf(priceCache)]_vars

\* the same for a fan-out that settles while no fan-out that started later
\* has settled
C35_NoStaleOverwriteInOrder ==
  [][\A i \in DOMAIN handlers :
       (settleStep(i) /\ priceCache.present /\ priceCache' # priceCache
          /\ \A j \in DOMAIN handlers :
               (fannedOut(j) /\ handlers[j].startedAt > handlers[i].startedAt) =>
                 handlers[j].pc = "fetching") =>
         startOf(priceCache') >= startOf(priceCache)]_vars


\* the sources_used of the 38001 of invocation i are sources the request
\* asked for
usesWanted(i) ==
  Range(handlers[i].signed.content.body.sources_used)
    \subseteq Range(requestSources(handlers[i].evt))

\* C36: every source in sources_used of a 38001 is one of the recognized
\* sources named in the request (any of ALL_SOURCES when it named none),
\* including for responses served from the cache.
C36_SourcesUsedWereWanted ==
  \A i \in DOMAIN handlers :
    (acceptedRequest(i) /\ handlers[i].signed.kind = KIND_PRICE_RES) => usesWanted(i)

\* the same for the responses that were not served from the cache
C36_FetchedSourcesWereWanted ==
  \A i \in DOMAIN handlers :
    (acceptedRequest(i) /\ handlers[i].signed.kind = KIND_PRICE_RES /\ ~handlers[i].hit) =>
      usesWanted(i)

-----------------------------------------------------------------------------
(* Properties of repeated events *)

\* how often event e is in the store
copies(evs, e) == Cardinality({k \in DOMAIN evs : evs[k] = e})

\* invocation i handles an event that an earlier invocation accepted
repeated(i) ==
  /\ handlers[i].type = "EVENT"
  /\ \E j \in 1..(i - 1) :
       /\ handlers[j].type = "EVENT" /\ handlers[j].reason = "accepted"
       /\ handlers[j].evt.id = handlers[i].evt.id

\* the invocation of a repeated request has come to its end
ended(i) ==
  /\ repeated(i) /\ acceptedRequest(i)
  /\ handlers[i].pc \notin {"verified", "fetching", "signed"}

\* the terminal event of invocation i is in the store and refers to its request
ownTerminal(i) ==
  /\ handlers[i].terminals = 1
  /\ includes(events, handlers[i].signed)
  /\ handlers[i].signed.kind \in {KIND_PRICE_RES, KIND_PRICE_ERR}
  /\ includes(handlers[i].signed.tags, <<"e", handlers[i].evt.id, "reply">>)

\* a repeated valid event is accepted with OK true and appended once more
repeatedIsStored ==
  \A i \in DOMAIN handlers :
    (resumeStep(i) /\ handlers[i].ok /\ repeated(i) /\ copies(events, handlers[i].evt) > 0) =>
      /\ handlers'[i].reason = "accepted"
      /\ copies(events', handlers[i].evt) = copies(events, handlers[i].evt) + 1
      /\ sentTo(handlers[i].ws) = << OkFrame(handlers[i].evt.id, TRUE, "accepted") >>
      /\ handlers[i].evt.kind = KIND_PRICE_REQ =>
           handlers'[i].pc \in {"signed", "fetching", "thrown"}

\* an earlier invocation of the same request has its terminal event in the
\* store
answeredBefore(i) ==
  \E j \in 1..(i - 1) :
    handlers[j].type = "EVENT" /\ handlers[j].evt.id = handlers[i].evt.id /\ ownTerminal(j)

\* C37: the relay does not deduplicate by event id: a valid event whose id
\* is already in the store is accepted again with OK true and stored a
\* second time, and a 38000 that has been answered triggers another
\* orchestration and another terminal event that references the same
\* request id.
C37_NoDeduplication ==
  /\ [][repeatedIsStored]_vars
  /\ [](\A i \in DOMAIN handlers : (ended(i) /\ answeredBefore(i)) => ownTerminal(i))

\* a request has been handled twice to the end: it is in the store twice and
\* so are two terminal events that refer to it
C37_Witness ==
  \E i, j \in DOMAIN handlers :
    /\ i < j /\ ended(j) /\ answeredBefore(j) /\ ownTerminal(i)
    /\ handlers[i].evt = handlers[j].evt
    /\ copies(events, handlers[j].evt) = 2
    /\ Cardinality(terminalsInStore(handlers[j].evt.id)) = 2

-----------------------------------------------------------------------------
(* Properties of the rate-limiter tables *)

\* the key of the IP bucket of invocation i
ipKey(i) == "ip:" \o clients[handlers[i].ws].ip

\* the tokens in the IP bucket of invocation i after the refill of this call
ipTokens(i) ==
  refill(bucketOf(ipLimiter, ipKey(i), now, RATE_BURST), now, RATE_IP_RPS, RATE_BURST)

\* C38: when an EVENT passes the IP limiter but is denied by the pubkey
\* limiter, one token has been deducted from the IP bucket although the
\* event is discarded.
C38_IpTokenSpentOnPubkeyDenial ==
  [][\A i \in DOMAIN handlers :
       (resumeStep(i) /\ handlers'[i].reason = "rate limited (pubkey)") =>
         /\ ipTokens(i) >= 1000
         /\ ipKey(i) \in DOMAIN ipLimiter'
         /\ ipLimiter'[ipKey(i)] = [tokens |-> ipTokens(i) - 1000, last |-> now]
         /\ events' = events /\ trace' = trace
         /\ sentTo(handlers[i].ws) =
              << OkFrame(handlers[i].evt.id, FALSE, "rate limited (pubkey)") >>]_vars

\* an event was refused for its pubkey on a connection from which no event
\* was accepted, and the IP bucket of that connection is below the burst
C38_Witness ==
  \E i \in DOMAIN handlers :
    /\ refused(i) /\ handlers[i].reason = "rate limited (pubkey)"
    /\ \A j \in DOMAIN handlers :
         handlers[j].ws = handlers[i].ws => handlers[j].reason # "accepted"
    /\ ipKey(i) \in DOMAIN ipLimiter
    /\ ipLimiter[ipKey(i)].tokens < RATE_BURST * 1000


\* the step leaves both rate-limiter tables as they are
tablesKept == ipLimiter' = ipLimiter /\ pubLimiter' = pubLimiter

\* C39: an EVENT frame that fails verification, an oversized frame, an
\* unparsable frame, and REQ and CLOSE frames leave both rate-limiter tables
\* unchanged: only events that passed verification consume tokens.
C39_OnlyVerifiedEventsConsumeTokens ==
  /\ [][frameStep => tablesKept]_vars
  /\ [][\A i \in DOMAIN handlers :
          (resumeStep(i) /\ ~nostrVerifyEvent(handlers[i].evt)) =>
            (tablesKept /\ handlers'[i].reason = "invalid")]_vars
  /\ [][~tablesKept =>
          \E i \in DOMAIN handlers :
            resumeStep(i) /\ handlers[i].type = "EVENT" /\ nostrVerifyEvent(handlers[i].evt)]_vars

\* after a note was accepted, a forged event, an oversized or unparsable
\* frame, a REQ and a CLOSE have been handled, and each table holds the one
\* bucket the note was charged to
C39_Witness ==
  /\ \E i \in DOMAIN handlers : refused(i) /\ handlers[i].reason = "invalid"
  /\ \E i \in DOMAIN handlers : handlers[i].type \in {"oversize", "ignored"}
  /\ \E i \in DOMAIN handlers : handlers[i].type = "REQ"
  /\ \E i \in DOMAIN handlers : handlers[i].type = "CLOSE"
  /\ Cardinality({i \in DOMAIN handlers : handlers[i].reason = "accepted"}) = 1
  /\ \E k \in DOMAIN ipLimiter :
       DOMAIN ipLimiter = {k} /\ ipLimiter[k].tokens = (RATE_BURST - 1) * 1000
  /\ \E k \in DOMAIN pubLimiter :
       DOMAIN pubLimiter = {k} /\ pubLimiter[k].tokens = (RATE_BURST - 1) * 1000

-----------------------------------------------------------------------------
(* Properties of the client hook *)

\* C40: after the cleanup of useWebSocket has run no further WebSocket is
\* opened: the close caused by the cleanup schedules no reconnect, and at
\* most one reconnect timer is pending at any time.
C40_NoConnectionAfterUnmount ==
  /\ \A k \in DOMAIN hook.sockets : hook.sockets[k].born = "mounted"
  /\ hook.phase = "unmounted" => hook.timers = {}
  /\ Cardinality(hook.timers) <= 1

\* the same as long as the cleanup has not closed a socket that was connecting
\* or open
C40_NoConnectionAfterQuietUnmount ==
  hook.closedByCleanup = 0 =>
    /\ \A k \in DOMAIN hook.sockets : hook.sockets[k].born = "mounted"
    /\ hook.phase = "unmounted" => hook.timers = {}
    /\ Cardinality(hook.timers) <= 1

\* at most one reconnect timer is pending at any time
C40_OneTimer == Cardinality(hook.timers) <= 1

====
